---- MODULE Spec2Model ----
(***************************************************************************)
(* Lexer and recursive-descent parser for a Kotlin subset.                 *)
(*   src/lexer/lexer.py                 Lexer (character level)            *)
(*   src/LexerProject/parser_kotlin.py  TokenStreamWrapper, Parser         *)
(*                                                                         *)
(* The parser's methods are operators over a parser state record           *)
(*   p = [buffer, k, errors, hw, stalled, raised]                          *)
(* buffer and k are TokenStreamWrapper._buffer and the number of tokens    *)
(* pulled from the underlying token stream, errors is Parser.errors.  hw   *)
(* and stalled are history fields: the largest buffer length seen, and     *)
(* whether some loop finished an iteration without consuming a token.      *)
(* raised tells that an exception of the token stream has left the method: *)
(* what the operators compute after that point is not executed.            *)
(* A method returns a record [p |-> state after, node |-> result].         *)
(* Bind(e, LAMBDA x : body) reads "x = e; body".                           *)
(***************************************************************************)
EXTENDS Integers, Sequences, FiniteSets, TLC

VARIABLES
    toks,     \* the tokens the underlying token stream delivers, <<tipo, lexema>> pairs
    nput,     \* how many phrases the input was put together from
    pc,       \* where the driver is: "input", "decls", "done", "raised", "expr", "recovered",
              \* "lexing", "eof", "error", "again", "wrapper"
    ps,       \* the Parser object (wrapper buffer + errors)
    file,     \* the node under construction / returned
    source,   \* Lexer.source, a sequence of characters
    lex,      \* the Lexer object: pos, linha, coluna
    tokens,   \* the tokens tokenize() has collected
    erro,     \* the exception a call of the lexer raised: message, line and column named
    out,      \* the tokens TokenStreamWrapper.next() has returned, in order
    last      \* the last two calls on the TokenStreamWrapper: [now, before]

vars == <<toks, nput, pc, ps, file, source, lex, tokens, erro, out, last>>

\* ---------------------------------------------------------------- bounds
\* Longest input, in phrases, of the declaration streams, of the streams over
\* the whole token vocabulary, and of the expression streams.
MaxDecl == 4
MaxAny == 3
MaxExpr == 3
\* Most parentheses opened in an expression stream.
MaxParen == 1
\* Most tokens put behind the ':' of a property.
MaxTail == 3
\* Longest expression stream put together token by token.
MaxChain == 4
\* Operands of the longest chain of binary operators.
MaxOperands == 3

\* Most phrases of a class body.
MaxMember == 4

\* Most phrases of a program text.
MaxWords == 3

\* Longest source text, in characters, of the operator texts, of the texts of
\* numeric literals and of the comment texts.
\* Longest underlying token stream of the TokenStreamWrapper runs, the deepest
\* peek, and the most tokens pulled from the underlying stream.
MaxStream == 3
MaxPeek == 2
MaxPull == 5
MaxOperator == 3
MaxNumber == 5
MaxComment == 8
\* Longest text of keyword characters and of string characters.
MaxKeyword == 4
MaxString == 6
\* Most calls of proximo_token() after the one that returned EOF.
MaxAgain == 2
\* Longest source text of the characters of character literals.
MaxCharText == 5

\* ---------------------------------------------------------------- tokens
Max(a, b) == IF a >= b THEN a ELSE b
Min(a, b) == IF a <= b THEN a ELSE b
\* Bind(e, LAMBDA x : body) is "x = e; body": the value of body for x = e.
Bind(v, K(_)) == CHOOSE y \in {K(x) : x \in {v}} : TRUE

EOFToken(col) == [tipo |-> "EOF", lexema |-> "", linha |-> 1, coluna |-> col, valor |-> ""]

\* What a None result stands for: a token, a node, an optional string.
NoToken == [tipo |-> "None", lexema |-> "None", linha |-> 0, coluna |-> 0, valor |-> "None"]
NoneNode == [type |-> "None"]
None == "None"
LIST(items) == [type |-> "list", items |-> items]
Truthy(node) == node.type # "None"
R(p, node) == [p |-> p, node |-> node]

\* The underlying token stream pulls from the lexer on demand.  An entry
\* EXCEPTION of toks is a request on which the lexer raises (a fatal lexical
\* failure): ts.next() raises instead of returning a token.
Fails(k) == k < Len(toks) /\ toks[k + 1][1] = "EXCEPTION"

\* The underlying token stream: the k+1-th request delivers the k+1-th token,
\* and EOF on every request after the last one (where Fails(k), no token is
\* delivered: the EOF stands in the place of the token that never comes).
TsNext(k) ==
    IF Fails(k) THEN EOFToken(k + 1)
    ELSE IF k < Len(toks)
    THEN [tipo |-> toks[k + 1][1], lexema |-> toks[k + 1][2], linha |-> 1,
          coluna |-> k + 1, valor |-> toks[k + 1][2]]
    ELSE EOFToken(Len(toks) + 1)

\* ---------------------------------------------------------------- TokenStreamWrapper
NewParser ==
    [buffer |-> <<>>, k |-> 0, errors |-> <<>>, hw |-> 0, stalled |-> FALSE, raised |-> FALSE]

\* A fill that reads one token more than the peek asks for.
RECURSIVE fill_um_a_mais(_, _)
fill_um_a_mais(p, n) ==
    IF Len(p.buffer) <= n + 1
    THEN fill_um_a_mais([p EXCEPT !.buffer = Append(@, TsNext(p.k)), !.k = @ + 1,
                                  !.hw = Max(@, Len(p.buffer) + 1),
                                  !.raised = @ \/ Fails(p.k)], n)
    ELSE p

RECURSIVE fill(_, _)
fill(p, n) ==
    IF Len(p.buffer) <= n
    THEN fill([p EXCEPT !.buffer = Append(@, TsNext(p.k)), !.k = @ + 1,
                        !.hw = Max(@, Len(p.buffer) + 1),
                        !.raised = @ \/ Fails(p.k)], n)
    ELSE p

\* A peek that takes the front token out of the buffer.
peek_consumindo(p, n) ==
    Bind(fill(p, n), LAMBDA q : [p |-> [q EXCEPT !.buffer = Tail(@)], tok |-> q.buffer[n + 1]])

peek(p, n) == Bind(fill(p, n), LAMBDA q : [p |-> q, tok |-> q.buffer[n + 1]])

\* A next that asks the underlying stream whatever the buffer holds.
next_ignorando_buffer(p) == [p |-> [p EXCEPT !.k = @ + 1], tok |-> TsNext(p.k)]

next(p) ==
    IF p.buffer # <<>>
    THEN [p |-> [p EXCEPT !.buffer = Tail(@)], tok |-> Head(p.buffer)]
    ELSE [p |-> [p EXCEPT !.k = @ + 1, !.raised = @ \/ Fails(p.k)], tok |-> TsNext(p.k)]

\* A call on the wrapper and the token it returned; the last two calls.
WrapperCall(op, n, tok) == [op |-> op, n |-> n, tok |-> tok]
NoCall == WrapperCall("none", 0, NoToken)
NoCalls == [now |-> NoCall, before |-> NoCall]

\* Number of tokens handed to the parser by next() so far.
Consumed(p) == p.k - Len(p.buffer)

\* A loop iteration that went from state a to state b consumed a token of the
\* input (the EOF the stream repeats for ever does not count).
Progress(a, b) == Min(Consumed(b), Len(toks)) > Min(Consumed(a), Len(toks))
Stall(p) == [p EXCEPT !.stalled = TRUE]

\* ---------------------------------------------------------------- Parser helpers
panic_sync_tokens == {"SEMICOLON", "RBRACE", "EOF"}

accept(p, tipo) ==
    Bind(peek(p, 0), LAMBDA pk :
    IF pk.tok.tipo = tipo THEN [p |-> next(pk.p).p, ok |-> TRUE]
    ELSE [p |-> pk.p, ok |-> FALSE])

\* A diagnostic recorded twice.
error_at_token_em_dobro(p, token, mensagem) ==
    [p EXCEPT !.errors = @ \o << [linha |-> token.linha, coluna |-> token.coluna,
                                  mensagem |-> mensagem, token |-> token.lexema],
                                 [linha |-> token.linha, coluna |-> token.coluna,
                                  mensagem |-> mensagem, token |-> token.lexema] >>]

error_at_token(p, token, mensagem) ==
    [p EXCEPT !.errors = Append(@, [linha |-> token.linha, coluna |-> token.coluna,
                                    mensagem |-> mensagem, token |-> token.lexema])]

\* A recovery that stops at '}' as it does at EOF, without consuming it.
RECURSIVE panic_recover_leaving_rbrace(_)
panic_recover_leaving_rbrace(p) ==
    Bind(peek(p, 0), LAMBDA pk :
    IF pk.tok.tipo \in panic_sync_tokens
    THEN (IF pk.tok.tipo = "SEMICOLON" THEN next(pk.p).p ELSE pk.p)
    ELSE panic_recover_leaving_rbrace(next(pk.p).p))

\* try: the loop; except Exception: return.  The only call of the loop that
\* reaches the token stream is the peek() on an empty buffer.
RECURSIVE panic_recover(_)
panic_recover(p) ==
    IF ~p.raised /\ p.buffer = <<>> /\ Fails(p.k)
    THEN [p EXCEPT !.k = @ + 1]
    ELSE Bind(peek(p, 0), LAMBDA pk :
         IF pk.tok.tipo \in panic_sync_tokens
         THEN (IF pk.tok.tipo # "EOF" THEN next(pk.p).p ELSE pk.p)
         ELSE panic_recover(next(pk.p).p))

\* expect(tipo, mensagem); the default message is shortened to its fixed part.
\* (In the messages a dash stands for the source's long dash.)
DefaultMsg == "Esperado token"

expect(p, tipo, mensagem) ==
    Bind(peek(p, 0), LAMBDA pk :
    IF pk.tok.tipo = tipo
    THEN next(pk.p)
    ELSE [p |-> panic_recover(error_at_token(pk.p, pk.tok, mensagem)), tok |-> NoToken])

\* error at the current token, then panic-mode recovery
error_and_recover(p, mensagem) ==
    Bind(peek(p, 0), LAMBDA pk : panic_recover(error_at_token(pk.p, pk.tok, mensagem)))

\* An error at the current token that records no diagnostic.
error_here_sem_diagnostico(p, mensagem) == fill(p, 0)

\* error at the current token, no recovery
error_here(p, mensagem) ==
    Bind(peek(p, 0), LAMBDA pk : error_at_token(pk.p, pk.tok, mensagem))

\* getattr(self.peek(), "tipo", None), and the state the peek leaves
tipo0(p) == peek(p, 0).tok.tipo
peeked(p) == fill(p, 0)

\* ---------------------------------------------------------------- expressions
\* A binary node with its operands exchanged.
BinaryTrocado(op, left, right) == [type |-> "binary", op |-> op, left |-> right, right |-> left]

Binary(op, left, right) == [type |-> "binary", op |-> op, left |-> left, right |-> right]

ElvisOps == {"OP_ELVIS"}
OrOps == {"OP_OR"}
AndOps == {"OP_AND"}
EqualityOps == {"OP_NEQ", "OP_EQ", "OP_EQ_STRICT", "OP_NEQ_STRICT"}
\* Without the cast keyword.
RelationalKwSemAs == {"KW_IN", "KW_IS"}

RelationalKw == {"KW_IN", "KW_IS", "KW_AS"}
RelationalOps == {"OP_GE", "OP_LE", "OP_GT", "OP_LT", "OP_RANGE", "OP_RANGE_UNTIL"}
AdditiveOps == {"OP_PLUS", "OP_MINUS", "OP_PLUS_ASSIGN", "OP_MINUS_ASSIGN"}
\* '+' taken at the multiplicative level too.
MultiplicativeOpsWithPlus == {"OP_MUL", "OP_DIV", "OP_MOD", "OP_PLUS"}
MultiplicativeOps == {"OP_MUL", "OP_DIV", "OP_MOD"}
UnaryOps == {"OP_NOT", "OP_MINUS"}
PostfixOps == {"OP_INC", "OP_DEC"}
LiteralKinds == {"INT_LITERAL", "FLOAT_LITERAL", "CHAR_LITERAL"}
NameKinds == {"IDENTIFIER", "Quoted_identifier"}
AccessOps == {"DOT", "OP_SAFE_CALL", "OP_NOT_NULL"}

\* The methods that call one another in a cycle do it through Call(name, p, x):
\* x is the method's second argument, 0 when it has none.  The expression
\* methods are written innermost first, parse_expression last.
RECURSIVE Call(_, _, _)

\* After STRING_INTERP_START: the optional STRING_INTERP_EXPR token
InterpExpr(p, parts) ==
    Bind(peek(p, 0), LAMBDA pk :
    IF pk.tok.tipo = "STRING_INTERP_EXPR"
    THEN [p |-> next(pk.p).p,
          parts |-> Append(parts, [type |-> "interp_expr", expr_text |-> pk.tok.lexema])]
    ELSE [p |-> pk.p, parts |-> parts])

\* ... then the '}' of the interpolation, or an error and recovery
InterpEnd(s) ==
    [p |-> IF tipo0(s.p) = "STRING_INTERP_END" THEN next(peeked(s.p)).p
           ELSE error_and_recover(s.p, "Fim de interpolação esperado ('}')"),
     parts |-> s.parts]

\* One iteration of the loop over the parts of a string: t = next(); ...
StringPart(t, parts) ==
    IF t.tok.tipo = "STRING_TEXT"
    THEN [p |-> t.p, parts |-> Append(parts, [type |-> "text", value |-> t.tok.valor])]
    ELSE IF t.tok.tipo = "STRING_INTERP_ID"
    THEN [p |-> t.p, parts |-> Append(parts, [type |-> "interp_id", name |-> t.tok.lexema])]
    ELSE IF t.tok.tipo = "STRING_INTERP_START"
    THEN InterpEnd(InterpExpr(t.p, parts))
    ELSE [p |-> t.p, parts |-> Append(parts, [type |-> "unknown", token |-> t.tok.lexema])]

RECURSIVE string_loop(_)
string_loop(s) ==
    IF tipo0(s.p) \notin {"STRING_END", "EOF"}
    THEN string_loop(StringPart(next(peeked(s.p)), s.parts))
    ELSE [p |-> peeked(s.p), parts |-> s.parts]

StringEnd(s) ==
    R(expect(s.p, "STRING_END", "Fim de string esperado").p,
      [type |-> "string", parts |-> s.parts])

parse_string_literal(p) ==
    StringEnd(string_loop([p |-> expect(p, "STRING_START", DefaultMsg).p, parts |-> <<>>]))

\* while True: args.append(parse_expression()); if not accept("COMMA"): break
RECURSIVE args_loop(_, _)
args_loop(p, args) ==
    Bind(Call("parse_expression", p, 0), LAMBDA e :
    Bind(accept(e.p, "COMMA"), LAMBDA comma :
    IF ~comma.ok THEN [p |-> comma.p, args |-> Append(args, e.node)]
    ELSE IF Progress(p, comma.p) THEN args_loop(comma.p, Append(args, e.node))
    ELSE [p |-> Stall(comma.p), args |-> Append(args, e.node)]))

\* self.expect("RPAREN", ...); node = call(callee, args)
CallEnd(a, callee) ==
    R(expect(a.p, "RPAREN", "')' esperado após argumentos de chamada").p,
      [type |-> "call", callee |-> callee, args |-> a.args])

\* After the access operator, a '.' is never skipped.
AfterAccessSemTolerancia(op_tok) == op_tok.p

\* after the access operator op_tok: a '.' after '!!' is skipped
AfterAccess(op_tok) ==
    IF op_tok.tok.tipo = "OP_NOT_NULL" /\ tipo0(op_tok.p) = "DOT"
    THEN next(peeked(op_tok.p)).p ELSE op_tok.p

RECURSIVE chain_loop(_)

\* the member name, or an error that ends the chain
MemberName(p, op, target) ==
    Bind(peek(p, 0), LAMBDA pk :
    IF pk.tok.tipo \in NameKinds
    THEN chain_loop(R(next(pk.p).p,
              [type |-> "member", target |-> target, op |-> op, member |-> pk.tok.lexema]))
    ELSE R(panic_recover(error_at_token(pk.p, pk.tok,
              "Nome de membro esperado após '.' ou '?.' etc.")), target))

chain_loop(r) ==
    Bind(peek(r.p, 0), LAMBDA pk :
    IF pk.tok.tipo = "LPAREN"
    THEN Bind(IF tipo0(next(pk.p).p) # "RPAREN" THEN args_loop(peeked(next(pk.p).p), <<>>)
              ELSE [p |-> peeked(next(pk.p).p), args |-> <<>>], LAMBDA a :
         chain_loop(CallEnd(a, r.node)))
    ELSE IF pk.tok.tipo \in AccessOps
    THEN MemberName(AfterAccess(next(pk.p)), pk.tok.lexema, r.node)
    ELSE R(pk.p, r.node))

parse_identifier_or_call_or_member(p) ==
    Bind(peek(p, 0), LAMBDA pk :
    IF pk.tok.tipo \in NameKinds
    THEN chain_loop(R(next(pk.p).p, [type |-> "identifier", name |-> pk.tok.lexema]))
    ELSE R(error_at_token(next(pk.p).p, pk.tok, "Identificador esperado"),
           [type |-> "error", token |-> pk.tok.lexema]))

parse_primary(p) ==
    Bind(peek(p, 0), LAMBDA pk :
    IF pk.tok.tipo \in LiteralKinds
    THEN R(next(pk.p).p, [type |-> "literal", kind |-> pk.tok.tipo, value |-> pk.tok.valor])
    ELSE IF pk.tok.tipo = "STRING_START" THEN parse_string_literal(pk.p)
    ELSE IF pk.tok.tipo \in NameKinds
    THEN parse_identifier_or_call_or_member(pk.p)
    ELSE IF pk.tok.tipo = "LPAREN"
    THEN Bind(Call("parse_expression", next(pk.p).p, 0), LAMBDA expr :
         R(expect(expr.p, "RPAREN", "')' esperado").p, expr.node))
    ELSE R(error_at_token(next(pk.p).p, pk.tok, "Expressão primária inválida"),
           [type |-> "error", token |-> pk.tok.lexema]))

parse_unary(p) ==
    Bind(peeked(p), LAMBDA q :
    IF tipo0(q) \in UnaryOps
    THEN Bind(next(q), LAMBDA op :
         Bind(Call("parse_unary", op.p, 0), LAMBDA operand :
         R(operand.p, [type |-> "unary", op |-> op.tok.lexema, operand |-> operand.node])))
    ELSE Bind(Call("parse_primary", q, 0), LAMBDA r :
         IF tipo0(r.p) \in PostfixOps
         THEN Bind(next(peeked(r.p)), LAMBDA op :
              R(op.p, [type |-> "postfix", op |-> op.tok.lexema, operand |-> r.node]))
         ELSE R(peeked(r.p), r.node)))

RECURSIVE multiplicative_loop(_)
multiplicative_loop(left) ==
    IF tipo0(left.p) \in MultiplicativeOps
    THEN Bind(next(left.p), LAMBDA op_tok :
         Bind(Call("parse_unary", op_tok.p, 0), LAMBDA right :
         multiplicative_loop(R(right.p, Binary(op_tok.tok.lexema, left.node, right.node)))))
    ELSE R(peeked(left.p), left.node)

parse_multiplicative(p) == Bind(Call("parse_unary", p, 0), LAMBDA node : multiplicative_loop(node))

RECURSIVE additive_loop(_)
additive_loop(left) ==
    IF tipo0(left.p) \in AdditiveOps
    THEN Bind(next(left.p), LAMBDA op_tok :
         Bind(Call("parse_multiplicative", op_tok.p, 0), LAMBDA right :
         additive_loop(R(right.p, Binary(op_tok.tok.lexema, left.node, right.node)))))
    ELSE R(peeked(left.p), left.node)

parse_additive(p) == Bind(Call("parse_multiplicative", p, 0), LAMBDA node : additive_loop(node))

\* right = Call("parse_additive", , 0); node = binary(op, node, right)
RelationalRight(p, op, left) ==
    Bind(Call("parse_additive", p, 0), LAMBDA right : R(right.p, Binary(op, left.node, right.node)))

\* Each iteration reads peek() and peek(1) before it decides.
RECURSIVE relational_loop(_)
relational_loop(left) ==
    Bind(peek(left.p, 0).tok.tipo, LAMBDA t0 :
    Bind(peek(left.p, 1), LAMBDA pk1 :
    IF t0 = "OP_NOT" /\ pk1.tok.tipo \in {"KW_IN", "KW_IS"}
    THEN Bind(next(next(pk1.p).p), LAMBDA op_tok :
         Bind(RelationalRight(op_tok.p, "!" \o op_tok.tok.lexema, left), LAMBDA node :
         relational_loop(node)))
    ELSE IF t0 \in RelationalKw
    THEN Bind(next(pk1.p), LAMBDA op_tok :
         Bind(IF op_tok.tok.lexema = "as" /\ tipo0(op_tok.p) = "QUESTION"
              THEN RelationalRight(next(peeked(op_tok.p)).p, "as?", left)
              ELSE RelationalRight(peeked(op_tok.p), op_tok.tok.lexema, left), LAMBDA node :
         relational_loop(node)))
    ELSE IF t0 \in RelationalOps
    THEN Bind(next(pk1.p), LAMBDA op_tok :
         Bind(RelationalRight(op_tok.p, op_tok.tok.lexema, left), LAMBDA node :
         relational_loop(node)))
    ELSE R(pk1.p, left.node)))

parse_relational(p) == Bind(Call("parse_additive", p, 0), LAMBDA node : relational_loop(node))

RECURSIVE equality_loop(_)
equality_loop(left) ==
    IF tipo0(left.p) \in EqualityOps
    THEN Bind(next(left.p), LAMBDA op_tok :
         Bind(Call("parse_relational", op_tok.p, 0), LAMBDA right :
         equality_loop(R(right.p, Binary(op_tok.tok.lexema, left.node, right.node)))))
    ELSE R(peeked(left.p), left.node)

parse_equality(p) == Bind(Call("parse_relational", p, 0), LAMBDA node : equality_loop(node))

RECURSIVE and_loop(_)
and_loop(left) ==
    IF tipo0(left.p) \in AndOps
    THEN Bind(next(left.p), LAMBDA op :
         Bind(Call("parse_equality", op.p, 0), LAMBDA right :
         and_loop(R(right.p, Binary(op.tok.lexema, left.node, right.node)))))
    ELSE R(peeked(left.p), left.node)

parse_and(p) == Bind(Call("parse_equality", p, 0), LAMBDA node : and_loop(node))

RECURSIVE or_loop(_)
or_loop(left) ==
    IF tipo0(left.p) \in OrOps
    THEN Bind(next(left.p), LAMBDA op :
         Bind(Call("parse_and", op.p, 0), LAMBDA right :
         or_loop(R(right.p, Binary(op.tok.lexema, left.node, right.node)))))
    ELSE R(peeked(left.p), left.node)

parse_or(p) == Bind(Call("parse_and", p, 0), LAMBDA node : or_loop(node))

RECURSIVE elvis_loop(_)
elvis_loop(left) ==
    IF tipo0(left.p) \in ElvisOps
    THEN Bind(next(left.p), LAMBDA op :
         Bind(Call("parse_or", op.p, 0), LAMBDA right :
         elvis_loop(R(right.p, Binary(op.tok.lexema, left.node, right.node)))))
    ELSE R(peeked(left.p), left.node)

parse_elvis(p) == Bind(Call("parse_or", p, 0), LAMBDA node : elvis_loop(node))

parse_expression(p) == Call("parse_elvis", p, 0)

\* ---------------------------------------------------------------- declarations
\* Token kinds that start with "MOD_".
ModifierKinds == {"MOD_PUBLIC", "MOD_PRIVATE"}
IsModifier(tipo) == tipo \in ModifierKinds
PropertyKw == {"KW_VAL", "KW_VAR"}
\* The expression starts without the literals.
ExprStartWithoutLiterals == {"STRING_START", "IDENTIFIER", "LPAREN"}
ExprStart == {"INT_LITERAL", "FLOAT_LITERAL", "STRING_START", "CHAR_LITERAL", "IDENTIFIER", "LPAREN"}

RECURSIVE collect_modifiers_loop(_, _)
collect_modifiers_loop(p, mods) ==
    Bind(peek(p, 0), LAMBDA pk :
    IF IsModifier(pk.tok.tipo)
    THEN collect_modifiers_loop(next(pk.p).p, Append(mods, pk.tok.lexema))
    ELSE [p |-> pk.p, mods |-> mods])

collect_modifiers(p) == collect_modifiers_loop(p, <<>>)

\* At an IDENTIFIER that names a type: t = next().lexema; if accept("QUESTION"): t = t + "?"
TypeName(p) ==
    Bind(next(p), LAMBDA t :
    Bind(accept(t.p, "QUESTION"), LAMBDA qm :
    [p |-> qm.p, name |-> IF qm.ok THEN t.tok.lexema \o "?" ELSE t.tok.lexema]))

\* A member that is parsed and then not kept.
MemberNotKept(r, members) == [p |-> r.p, members |-> members]

\* members.append(<declaration>)
Member(r, members) == [p |-> r.p, members |-> Append(members, r.node)]

\* One iteration of the loop over a class body (lines 268-285).  Without
\* modifiers the member gets []; with modifiers that no member follows, the
\* three tests of lines 278-283 fail as those of lines 271-276 did.
class_member(p, members) ==
    Bind(IF IsModifier(tipo0(p)) THEN collect_modifiers(p)
         ELSE [p |-> peeked(p), mods |-> <<>>], LAMBDA cm :
    Bind(peek(cm.p, 0), LAMBDA pk :
    IF pk.tok.tipo = "KW_OBJECT"
    THEN Member(Call("parse_object_decl", pk.p, cm.mods), members)
    ELSE IF pk.tok.tipo \in PropertyKw
    THEN Member(Call("parse_property_decl", pk.p, cm.mods), members)
    ELSE IF pk.tok.tipo = "KW_FUN"
    THEN Member(Call("parse_function_decl", pk.p, cm.mods), members)
    ELSE [p |-> panic_recover(error_at_token(pk.p, pk.tok,
                    "Membro de classe não reconhecido (ignorado)")),
          members |-> members]))

class_body_loop(p, members) ==
    IF tipo0(p) \notin {"RBRACE", "EOF"}
    THEN Bind(class_member(peeked(p), members), LAMBDA m :
         IF Progress(p, m.p) THEN Call("class_body_loop", m.p, m.members)
         ELSE [p |-> Stall(m.p), members |-> m.members])
    ELSE [p |-> peeked(p), members |-> members]

parse_class_decl(p, modifiers) ==
    Bind(expect(p, "KW_CLASS", DefaultMsg), LAMBDA kw :
    Bind(expect(kw.p, "IDENTIFIER", "Nome da classe esperado após 'class'"), LAMBDA name_tok :
    Bind(IF name_tok.tok # NoToken THEN name_tok.tok.lexema ELSE "<erro>", LAMBDA name :
    Bind(accept(name_tok.p, "LBRACE"), LAMBDA lb :
    IF lb.ok
    THEN Bind(Call("class_body_loop", lb.p, <<>>), LAMBDA b :
         R(expect(b.p, "RBRACE", "Fechamento '}' esperado no corpo da classe").p,
           [type |-> "class", name |-> name, modifiers |-> modifiers,
            body |-> LIST(b.members)]))
    ELSE R(lb.p, [type |-> "class", name |-> name, modifiers |-> modifiers,
                  body |-> NoneNode])))))

\* One iteration of the loop over an object body (lines 302-310): modifiers
\* are kept for a property only.
object_member(p, members) ==
    Bind(IF IsModifier(tipo0(p)) THEN collect_modifiers(p)
         ELSE [p |-> peeked(p), mods |-> <<>>], LAMBDA cm :
    Bind(peek(cm.p, 0), LAMBDA pk :
    IF pk.tok.tipo \in PropertyKw
    THEN Member(Call("parse_property_decl", pk.p, cm.mods), members)
    ELSE IF pk.tok.tipo = "KW_FUN"
    THEN Member(Call("parse_function_decl", pk.p, <<>>), members)
    ELSE [p |-> panic_recover(error_at_token(pk.p, pk.tok,
                    "Membro do object não reconhecido")),
          members |-> members]))

object_body_loop(p, members) ==
    IF tipo0(p) \notin {"RBRACE", "EOF"}
    THEN Bind(object_member(peeked(p), members), LAMBDA m :
         IF Progress(p, m.p) THEN Call("object_body_loop", m.p, m.members)
         ELSE [p |-> Stall(m.p), members |-> m.members])
    ELSE [p |-> peeked(p), members |-> members]

parse_object_decl(p, modifiers) ==
    Bind(expect(p, "KW_OBJECT", DefaultMsg), LAMBDA kw :
    Bind(peek(kw.p, 0), LAMBDA pk :
    Bind(IF pk.tok.tipo = "IDENTIFIER" THEN [p |-> next(pk.p).p, name |-> pk.tok.lexema]
         ELSE [p |-> pk.p, name |-> None], LAMBDA nm :
    Bind(accept(nm.p, "LBRACE"), LAMBDA lb :
    IF lb.ok
    THEN Bind(Call("object_body_loop", lb.p, <<>>), LAMBDA b :
         R(expect(b.p, "RBRACE", "Fechamento '}' esperado no object").p,
           [type |-> "object", name |-> nm.name, modifiers |-> modifiers,
            members |-> b.members]))
    ELSE R(lb.p, [type |-> "object", name |-> nm.name, modifiers |-> modifiers,
                  members |-> <<>>])))))

\* One iteration of the loop over the parameters (lines 331-342).
params_loop(p, params) ==
    Bind(peek(p, 0), LAMBDA pk :
    IF pk.tok.tipo = "IDENTIFIER"
    THEN Bind(accept(next(pk.p).p, "COLON"), LAMBDA colon :
         Bind(IF colon.ok /\ tipo0(colon.p) = "IDENTIFIER" THEN TypeName(peeked(colon.p))
              ELSE [p |-> peeked(colon.p), name |-> None], LAMBDA p_type :
         Bind(Append(params, [name |-> pk.tok.lexema, type |-> p_type.name]), LAMBDA params1 :
         Bind(accept(p_type.p, "COMMA"), LAMBDA comma :
         IF ~comma.ok THEN [p |-> comma.p, params |-> params1]
         ELSE IF Progress(p, comma.p) THEN Call("params_loop", comma.p, params1)
         ELSE [p |-> Stall(comma.p), params |-> params1]))))
    ELSE [p |-> panic_recover(error_at_token(pk.p, pk.tok, "Parâmetro inválido")),
          params |-> params])

parse_function_decl(p, modifiers) ==
    Bind(expect(p, "KW_FUN", DefaultMsg), LAMBDA kw :
    Bind(expect(kw.p, "IDENTIFIER", "Nome da função esperado"), LAMBDA name_tok :
    Bind(IF name_tok.tok # NoToken THEN name_tok.tok.lexema ELSE "<erro>", LAMBDA name :
    Bind(expect(name_tok.p, "LPAREN", "Esperado '(' em declaração de função"), LAMBDA lp :
    Bind(IF tipo0(lp.p) # "RPAREN" THEN Call("params_loop", peeked(lp.p), <<>>)
         ELSE [p |-> peeked(lp.p), params |-> <<>>], LAMBDA pl :
    Bind(expect(pl.p, "RPAREN", "Esperado ')' após parâmetros"), LAMBDA rp :
    Bind(accept(rp.p, "COLON"), LAMBDA colon :
    Bind(IF ~colon.ok THEN [p |-> colon.p, name |-> None]
         ELSE IF tipo0(colon.p) = "IDENTIFIER" THEN TypeName(peeked(colon.p))
         ELSE [p |-> error_here(colon.p, "Tipo de retorno esperado após ':'"),
               name |-> None], LAMBDA rettype :
    Bind(accept(rettype.p, "LBRACE"), LAMBDA lb :
    Bind(IF lb.ok THEN Call("parse_block", lb.p, 0)
         ELSE IF tipo0(lb.p) = "SEMICOLON" THEN R(next(peeked(lb.p)).p, NoneNode)
         ELSE R(peeked(lb.p), NoneNode), LAMBDA body :
    R(body.p, [type |-> "function", name |-> name, modifiers |-> modifiers,
               params |-> pl.params, return |-> rettype.name, body |-> body.node])))))))))))

\* The loop over the names of a destructuring declaration (lines 376-381).
RECURSIVE destructuring_loop(_, _)
destructuring_loop(p, parts) ==
    Bind(peek(p, 0), LAMBDA pk :
    IF pk.tok.tipo \in {"RPAREN", "EOF"} THEN [p |-> pk.p, parts |-> parts]
    ELSE IF pk.tok.tipo = "IDENTIFIER"
    THEN Bind(accept(next(pk.p).p, "COMMA"), LAMBDA comma :
         IF comma.ok THEN destructuring_loop(comma.p, Append(parts, pk.tok.lexema))
         ELSE [p |-> comma.p, parts |-> Append(parts, pk.tok.lexema)])
    ELSE [p |-> panic_recover(error_at_token(pk.p, pk.tok,
                    "Identificador esperado em destruturação")),
          parts |-> parts])

parse_property_decl(p, modifiers) ==
    Bind(next(p), LAMBDA kind :
    IF tipo0(kind.p) = "LPAREN"
    THEN Bind(destructuring_loop(next(peeked(kind.p)).p, <<>>), LAMBDA d :
         Bind(expect(d.p, "RPAREN", "')' esperado na destruturação"), LAMBDA rp :
         Bind(accept(rp.p, "OP_ASSIGN"), LAMBDA assign :
         Bind(IF assign.ok THEN Call("parse_expression", assign.p, 0)
              ELSE R(error_and_recover(assign.p, "Atribuição esperada em destruturação"),
                     NoneNode), LAMBDA value :
         R(expect(value.p, "SEMICOLON", "Ponto-e-vírgula esperado ao final da declaração").p,
           [type |-> "destructuring", kind |-> kind.tok.tipo, parts |-> d.parts,
            value |-> value.node, modifiers |-> modifiers])))))
    ELSE Bind(peek(kind.p, 0), LAMBDA pk :
         Bind(IF pk.tok.tipo \in NameKinds
              THEN [p |-> next(pk.p).p, name |-> pk.tok.lexema]
              ELSE [p |-> panic_recover(error_at_token(pk.p, pk.tok,
                              "Nome da propriedade esperado")),
                    name |-> "<erro>"], LAMBDA nm :
         Bind(accept(nm.p, "COLON"), LAMBDA colon :
         Bind(IF ~colon.ok THEN [p |-> colon.p, name |-> None]
              ELSE IF tipo0(colon.p) = "IDENTIFIER" THEN TypeName(peeked(colon.p))
              ELSE IF tipo0(colon.p) \in ExprStart
              THEN [p |-> error_here(colon.p,
                     "Tipo esperado após ':' - assumindo iniacializador (recuperação tolerante)."),
                    name |-> None]
              ELSE [p |-> error_here(colon.p, "Tipo esperado após ':' em propriedade"),
                    name |-> None], LAMBDA var_type :
         Bind(accept(var_type.p, "OP_ASSIGN"), LAMBDA assign :
         Bind(IF assign.ok THEN Call("parse_expression", assign.p, 0)
              ELSE IF var_type.name = None /\ tipo0(assign.p) \in ExprStart
              THEN Call("parse_expression", assign.p, 0)
              ELSE R(assign.p, NoneNode), LAMBDA value :
         Bind(peek(value.p, 0), LAMBDA sc :
         R(IF sc.tok.tipo = "SEMICOLON" THEN next(sc.p).p
           ELSE panic_recover(error_at_token(sc.p, sc.tok,
                  "Ponto-e-vírgula esperado ao final da declaração de propriedade")),
           [type |-> "property", kind |-> kind.tok.tipo, name |-> nm.name,
            var_type |-> var_type.name, value |-> value.node,
            modifiers |-> modifiers])))))))))

\* ---------------------------------------------------------------- blocks, statements
block_loop(p, stmts) ==
    IF tipo0(p) \notin {"RBRACE", "EOF"}
    THEN Bind(Call("parse_statement", peeked(p), 0), LAMBDA st :
         Bind(IF Truthy(st.node) THEN [p |-> st.p, stmts |-> Append(stmts, st.node)]
              ELSE [p |-> panic_recover(st.p), stmts |-> stmts], LAMBDA b :
         IF Progress(p, b.p) THEN Call("block_loop", b.p, b.stmts)
         ELSE [p |-> Stall(b.p), stmts |-> b.stmts]))
    ELSE [p |-> peeked(p), stmts |-> stmts]

parse_block(p) ==
    Bind(Call("block_loop", p, <<>>), LAMBDA b :
    R(expect(b.p, "RBRACE", "Fechamento de bloco '}' esperado").p,
      [type |-> "block", statements |-> b.stmts]))

parse_statement(p) ==
    Bind(peek(p, 0), LAMBDA pk :
    IF pk.tok.tipo \in PropertyKw THEN Call("parse_property_decl", pk.p, <<>>)
    ELSE IF pk.tok.tipo = "KW_IF" THEN Call("parse_if", pk.p, 0)
    ELSE IF pk.tok.tipo = "KW_FOR" THEN Call("parse_for", pk.p, 0)
    ELSE IF pk.tok.tipo = "LBRACE" THEN Call("parse_block", next(pk.p).p, 0)
    ELSE Bind(Call("parse_expression", pk.p, 0), LAMBDA expr :
         Bind(peek(expr.p, 0), LAMBDA sc :
         R(IF sc.tok.tipo = "SEMICOLON" THEN next(sc.p).p
           ELSE panic_recover(error_at_token(sc.p, sc.tok,
                  "Ponto-e-vírgula esperado ao final da instrução")),
           [type |-> "expr_stmt", expr |-> expr.node]))))

\* if '{' follows: next(); parse_block(), else parse_statement()
BlockOrStatement(p) ==
    IF tipo0(p) = "LBRACE" THEN Call("parse_block", next(peeked(p)).p, 0)
    ELSE Call("parse_statement", peeked(p), 0)

parse_if(p) ==
    Bind(expect(expect(p, "KW_IF", DefaultMsg).p, "LPAREN", "Esperado '(' após if"), LAMBDA lp :
    Bind(Call("parse_expression", lp.p, 0), LAMBDA cond :
    Bind(expect(cond.p, "RPAREN", "Esperado ')' após condição do if"), LAMBDA rp :
    Bind(BlockOrStatement(rp.p), LAMBDA then_node :
    Bind(IF tipo0(then_node.p) = "KW_ELSE"
         THEN BlockOrStatement(next(peeked(then_node.p)).p)
         ELSE R(peeked(then_node.p), NoneNode), LAMBDA else_node :
    R(else_node.p, [type |-> "if", cond |-> cond.node, then |-> then_node.node,
                    else |-> else_node.node]))))))

parse_for(p) ==
    Bind(expect(expect(p, "KW_FOR", DefaultMsg).p, "LPAREN", "Esperado '(' após for"), LAMBDA lp :
    Bind(peek(lp.p, 0), LAMBDA pk :
    Bind(IF pk.tok.tipo = "IDENTIFIER" THEN [p |-> next(pk.p).p, name |-> pk.tok.lexema]
         ELSE [p |-> error_at_token(pk.p, pk.tok, "Identificador de iteração esperado"),
               name |-> None], LAMBDA var_name :
    Bind(accept(var_name.p, "KW_IN"), LAMBDA kin :
    Bind(IF kin.ok THEN Call("parse_expression", kin.p, 0) ELSE R(kin.p, NoneNode), LAMBDA rng :
    Bind(expect(rng.p, "RPAREN", "Esperado ')' após cabeçalho do for"), LAMBDA rp :
    Bind(BlockOrStatement(rp.p), LAMBDA body :
    R(body.p, [type |-> "for", var |-> var_name.name, range |-> rng.node,
               body |-> body.node]))))))))

Call(name, p, x) ==
    CASE name = "parse_expression" -> parse_expression(p)
      [] name = "parse_elvis" -> parse_elvis(p)
      [] name = "parse_or" -> parse_or(p)
      [] name = "parse_and" -> parse_and(p)
      [] name = "parse_equality" -> parse_equality(p)
      [] name = "parse_relational" -> parse_relational(p)
      [] name = "parse_additive" -> parse_additive(p)
      [] name = "parse_multiplicative" -> parse_multiplicative(p)
      [] name = "parse_unary" -> parse_unary(p)
      [] name = "parse_primary" -> parse_primary(p)
      [] name = "parse_class_decl" -> parse_class_decl(p, x)
      [] name = "class_body_loop" -> class_body_loop(p, x)
      [] name = "parse_object_decl" -> parse_object_decl(p, x)
      [] name = "object_body_loop" -> object_body_loop(p, x)
      [] name = "parse_function_decl" -> parse_function_decl(p, x)
      [] name = "params_loop" -> params_loop(p, x)
      [] name = "parse_property_decl" -> parse_property_decl(p, x)
      [] name = "parse_block" -> parse_block(p)
      [] name = "block_loop" -> block_loop(p, x)
      [] name = "parse_statement" -> parse_statement(p)
      [] name = "parse_if" -> parse_if(p)
      [] name = "parse_for" -> parse_for(p)

\* ---------------------------------------------------------------- package / import
\* ".".join(parts)
RECURSIVE JoinDot(_)
JoinDot(parts) ==
    IF parts = <<>> THEN ""
    ELSE IF Len(parts) = 1 THEN parts[1]
    ELSE parts[1] \o "." \o JoinDot(Tail(parts))

\* while accept("DOT"): ... (lines 195-200)
RECURSIVE package_parts_loop(_, _)
package_parts_loop(p, parts) ==
    Bind(accept(p, "DOT"), LAMBDA dot :
    IF ~dot.ok THEN [p |-> dot.p, parts |-> parts]
    ELSE Bind(peek(dot.p, 0), LAMBDA pk :
         IF pk.tok.tipo = "IDENTIFIER"
         THEN package_parts_loop(next(pk.p).p, Append(parts, pk.tok.lexema))
         ELSE [p |-> error_at_token(pk.p, pk.tok, "Identificador esperado após '.' no package"),
               parts |-> parts]))

parse_package_decl(p) ==
    Bind(expect(p, "KW_PACKAGE", DefaultMsg), LAMBDA kw :
    Bind(peek(kw.p, 0), LAMBDA pk :
    Bind(IF pk.tok.tipo = "IDENTIFIER"
         THEN package_parts_loop(next(pk.p).p, <<pk.tok.lexema>>)
         ELSE [p |-> pk.p, parts |-> <<>>], LAMBDA pp :
    R(expect(pp.p, "SEMICOLON", "Ponto-e-vírgula esperado após declaração de package").p,
      [type |-> "package", name |-> JoinDot(pp.parts)]))))

\* while accept("DOT"): ... (lines 214-220)
RECURSIVE import_parts_loop(_, _)
import_parts_loop(p, parts) ==
    Bind(accept(p, "DOT"), LAMBDA dot :
    IF ~dot.ok THEN [p |-> dot.p, parts |-> parts]
    ELSE Bind(peek(dot.p, 0), LAMBDA pk :
         IF pk.tok.tipo = "OP_MUL" THEN [p |-> next(pk.p).p, parts |-> Append(parts, "*")]
         ELSE IF pk.tok.tipo = "IDENTIFIER"
         THEN import_parts_loop(next(pk.p).p, Append(parts, pk.tok.lexema))
         ELSE [p |-> error_at_token(pk.p, pk.tok, "Identificador esperado no import"),
               parts |-> parts]))

parse_import_decl(p) ==
    Bind(expect(p, "SK_IMPORT", DefaultMsg), LAMBDA kw :
    Bind(peek(kw.p, 0), LAMBDA pk :
    Bind(IF pk.tok.tipo = "IDENTIFIER"
         THEN import_parts_loop(next(pk.p).p, <<pk.tok.lexema>>)
         ELSE [p |-> pk.p, parts |-> <<>>], LAMBDA pp :
    R(expect(pp.p, "SEMICOLON", "Ponto-e-vírgula esperado após import").p,
      [type |-> "import", path |-> JoinDot(pp.parts)]))))

\* ---------------------------------------------------------------- top level
parse_top_level_decl(p) ==
    Bind(collect_modifiers(p), LAMBDA cm :
    Bind(peek(cm.p, 0), LAMBDA pk :
    IF pk.tok.tipo = "KW_CLASS" THEN Call("parse_class_decl", pk.p, cm.mods)
    ELSE IF pk.tok.tipo = "KW_FUN" THEN Call("parse_function_decl", pk.p, cm.mods)
    ELSE IF pk.tok.tipo \in PropertyKw THEN Call("parse_property_decl", pk.p, cm.mods)
    ELSE IF pk.tok.tipo = "SEMICOLON" THEN R(next(pk.p).p, NoneNode)
    ELSE R(panic_recover(error_at_token(pk.p, pk.tok, "Declaração de topo inválida")),
           NoneNode)))

\* while peek().tipo in ("SK_IMPORT", "IMPORT"): ... (lines 167-169)
RECURSIVE imports_loop(_, _)
imports_loop(p, imports) ==
    IF tipo0(p) \in {"SK_IMPORT", "IMPORT"}
    THEN Bind(parse_import_decl(peeked(p)), LAMBDA imp :
         Bind(IF Truthy(imp.node) THEN Append(imports, imp.node) ELSE imports, LAMBDA imports1 :
         IF Progress(p, imp.p) THEN imports_loop(imp.p, imports1)
         ELSE [p |-> Stall(imp.p), imports |-> imports1]))
    ELSE [p |-> peeked(p), imports |-> imports]

\* parse() up to the loop over the declarations (lines 162-169)
parse_header(p) ==
    Bind(IF tipo0(p) = "KW_PACKAGE" THEN parse_package_decl(peeked(p))
         ELSE R(peeked(p), NoneNode), LAMBDA pkg :
    Bind(imports_loop(pkg.p, <<>>), LAMBDA im :
    R(im.p, [type |-> "kotlinFile", package |-> pkg.node, imports |-> im.imports,
             declarations |-> <<>>])))

\* One iteration of the loop over the declarations (lines 172-179); the
\* current token is not EOF.  brk: the iteration left the loop by break.
parse_decl_iteration(p, file_node) ==
    Bind(parse_top_level_decl(p), LAMBDA decl :
    IF Truthy(decl.node)
    THEN [p |-> decl.p, brk |-> FALSE,
          node |-> [file_node EXCEPT !.declarations = Append(@, decl.node)]]
    ELSE IF tipo0(decl.p) = "EOF"
    THEN [p |-> peeked(decl.p), brk |-> TRUE, node |-> file_node]
    ELSE [p |-> panic_recover(decl.p), brk |-> FALSE, node |-> file_node])

\* ================================================================ Lexer
\* A character is a string of length one; NUL is what ch_atual() returns
\* at the end of the source ('\0').  Letters and digits are the ASCII ones.
NUL == "NUL"
\* The grave accent that quotes an identifier is written Crase.
Crase == "CRASE"
Digits == {"0", "1", "2", "3", "4", "5", "6", "7", "8", "9"}
LowerCase == <<"a", "b", "c", "d", "e", "f", "g", "h", "i", "j", "k", "l", "m",
               "n", "o", "p", "q", "r", "s", "t", "u", "v", "w", "x", "y", "z">>
UpperCase == <<"A", "B", "C", "D", "E", "F", "G", "H", "I", "J", "K", "L", "M",
               "N", "O", "P", "Q", "R", "S", "T", "U", "V", "W", "X", "Y", "Z">>
Letters == {LowerCase[i] : i \in DOMAIN LowerCase} \cup {UpperCase[i] : i \in DOMAIN UpperCase}
Whitespace == {" ", "\t", "\r", "\n"}

isdigit(ch) == ch \in Digits
isalpha(ch) == ch \in Letters
lower(ch) ==
    IF \E i \in DOMAIN UpperCase : UpperCase[i] = ch
    THEN LowerCase[CHOOSE i \in DOMAIN UpperCase : UpperCase[i] = ch]
    ELSE ch

\* "".join(chars)
RECURSIVE Str(_)
Str(chars) == IF chars = <<>> THEN "" ELSE Head(chars) \o Str(Tail(chars))

\* self.source[a:b]
Slice(a, b) == Str(SubSeq(source, a + 1, Min(b, Len(source))))

OPERADORES == {
    <<"=", "OP_ASSIGN">>, <<"+", "OP_PLUS">>, <<"-", "OP_MINUS">>, <<"*", "OP_MUL">>,
    <<"/", "OP_DIV">>, <<"%", "OP_MOD">>, <<"===", "OP_EQ_STRICT">>,
    <<"!==", "OP_NEQ_STRICT">>, <<"==", "OP_EQ">>, <<"!=", "OP_NEQ">>, <<"<=", "OP_LE">>,
    <<">=", "OP_GE">>, <<"<", "OP_LT">>, <<">", "OP_GT">>, <<"&&", "OP_AND">>,
    <<"||", "OP_OR">>, <<"!", "OP_NOT">>, <<"++", "OP_INC">>, <<"--", "OP_DEC">>,
    <<"+=", "OP_PLUS_ASSIGN">>, <<"-=", "OP_MINUS_ASSIGN">>, <<"*=", "OP_MUL_ASSIGN">>,
    <<"/=", "OP_DIV_ASSIGN">>, <<"->", "OP_ARROW">>, <<"..<", "OP_RANGE_UNTIL">>,
    <<"..", "OP_RANGE">>, <<"?.", "OP_SAFE_CALL">>, <<"?:", "OP_ELVIS">>,
    <<"!!", "OP_NOT_NULL">>, <<"::", "OP_REF">> }

SIMBOLOS == {
    <<"(", "LPAREN">>, <<")", "RPAREN">>, <<"{", "LBRACE">>, <<"}", "RBRACE">>,
    <<"[", "LBRACKET">>, <<"]", "RBRACKET">>, <<",", "COMMA">>, <<";", "SEMICOLON">>,
    <<":", "COLON">>, <<".", "DOT">>, <<"@", "AT">>, <<"?", "QUESTION">> }

\* key in table, table[key]
In(key, table) == \E e \in table : e[1] = key
Lookup(key, table) == (CHOOSE e \in table : e[1] = key)[2]

MODIFIER_KEYWORDS == {
    "abstract", "actual", "annotation", "companion", "const", "crossinline",
    "data", "enum", "expect", "external", "final", "infix", "inline", "inner",
    "internal", "lateinit", "noinline", "open", "operator", "out", "override",
    "private", "protected", "public", "reified", "sealed", "suspend", "tailrec",
    "vararg" }

SOFT_KEYWORDS == {
    "by", "catch", "constructor", "delegate", "dynamic", "field", "file",
    "finally", "get", "import", "init", "param", "property", "receiver", "set",
    "setparam", "value", "where" }

HARD_KEYWORDS == {
    "as", "as?", "break", "class", "continue", "do", "else", "false", "for", "fun",
    "if", "in", "!in", "interface", "is", "!is", "null", "object", "package",
    "return", "super", "this", "throw", "true", "try", "typealias", "typeof", "val",
    "var", "when", "while" }

Token(tipo, lexema, linha, coluna) ==
    [tipo |-> tipo, lexema |-> lexema, linha |-> linha, coluna |-> coluna]

\* The Lexer object: lx = [pos, linha, coluna] over the source text.  A
\* method returns the state it leaves, or a record [lx, toks, err]: the tokens
\* it returns and the message of the exception it raises ("" if none).
NewLexer == [pos |-> 0, linha |-> 1, coluna |-> 1]
Ok(lx, tokens_out) == [lx |-> lx, toks |-> tokens_out, err |-> ""]
\* raise Exception(f"... linha {linha}, coluna {coluna}"): the message names a
\* line and a column.  raise Exception("..."): it names none (0, 0).
RaiseAt(lx, mensagem, linha, coluna) ==
    [lx |-> lx, toks |-> <<>>, err |-> mensagem, linha |-> linha, coluna |-> coluna]
Raise(lx, mensagem) == RaiseAt(lx, mensagem, 0, 0)
\* The exception a failed call leaves its caller with, and no exception.
Exception(r) == [mensagem |-> r.err, linha |-> r.linha, coluna |-> r.coluna]
NoException == [mensagem |-> "", linha |-> 0, coluna |-> 0]

ch_at(i) == IF i < Len(source) THEN source[i + 1] ELSE NUL
ch_atual(lx) == ch_at(lx.pos)
ch_proximo(lx) == ch_at(lx.pos + 1)

avancar(lx) ==
    IF ch_atual(lx) = "\n"
    THEN [pos |-> lx.pos + 1, linha |-> lx.linha + 1, coluna |-> 1]
    ELSE [pos |-> lx.pos + 1, linha |-> lx.linha, coluna |-> lx.coluna + 1]

\* for _ in range(n): self.avancar()
RECURSIVE avancar_n(_, _)
avancar_n(lx, n) == IF n = 0 THEN lx ELSE avancar_n(avancar(lx), n - 1)

\* while self.ch_atual() in chars: self.avancar()
RECURSIVE avancar_while(_, _)
avancar_while(lx, chars) ==
    IF ch_atual(lx) \in chars THEN avancar_while(avancar(lx), chars) ELSE lx

\* while self.ch_atual() != c and self.ch_atual() != '\0': self.avancar()
RECURSIVE avancar_until(_, _)
avancar_until(lx, c) ==
    IF ch_atual(lx) \notin {c, NUL} THEN avancar_until(avancar(lx), c) ELSE lx

pular_linha(lx) ==
    Bind(avancar_until(lx, "\n"), LAMBDA eol :
    IF ch_atual(eol) = "\n" THEN avancar(eol) ELSE eol)

\* Skips the white space and one character more.
pular_espaco_e_mais_um(lx) == avancar(avancar_while(lx, Whitespace))

pular_espaco(lx) == avancar_while(lx, Whitespace)

pular_comentario_linha(lx) == avancar_until(lx, "\n")

\* The loop of a block comment that does not count the inner openers.
RECURSIVE comentario_loop_sem_aninhamento(_, _)
comentario_loop_sem_aninhamento(lx, profundidade) ==
    IF profundidade > 0
    THEN IF ch_atual(lx) = NUL THEN Raise(lx, "erro lexico: comentario nao fechado!")
         ELSE IF ch_atual(lx) = "*" /\ ch_proximo(lx) = "/"
         THEN comentario_loop_sem_aninhamento(avancar(avancar(lx)), profundidade - 1)
         ELSE comentario_loop_sem_aninhamento(avancar(lx), profundidade)
    ELSE Ok(lx, <<>>)

\* while profundidade > 0: ...
RECURSIVE comentario_loop(_, _)
comentario_loop(lx, profundidade) ==
    IF profundidade > 0
    THEN IF ch_atual(lx) = NUL THEN Raise(lx, "erro lexico: comentario nao fechado!")
         ELSE IF ch_atual(lx) = "/" /\ ch_proximo(lx) = "*"
         THEN comentario_loop(avancar(avancar(lx)), profundidade + 1)
         ELSE IF ch_atual(lx) = "*" /\ ch_proximo(lx) = "/"
         THEN comentario_loop(avancar(avancar(lx)), profundidade - 1)
         ELSE comentario_loop(avancar(lx), profundidade)
    ELSE Ok(lx, <<>>)

pular_comentario_blocos(lx) == comentario_loop(avancar(avancar(lx)), 1)

eh_hex(ch) == isdigit(ch) \/ lower(ch) \in {"a", "b", "c", "d", "e", "f"}
eh_bin(ch) == ch \in {"0", "1"}
eh_sufixo_inteiro(ch) == lower(ch) \in {"u", "l"}
eh_sufixo_float(ch) == lower(ch) = "f"

\* The characters a loop `while <test>(self.ch_atual()) ...` goes over.
BinChars == {ch \in Digits : eh_bin(ch)}
HexChars == {ch \in Letters \cup Digits : eh_hex(ch)}
DecChars == Digits
\* eh_separador
Separador == {"_"}
IntSuffixes == {ch \in Letters : eh_sufixo_inteiro(ch)}
\* ch.isalnum() or ch == '_'
IdentChars == Letters \cup Digits \cup {"_"}

\* ---------------------------------------------------------------- Lexer: literals, names
\* Every digit consumed counts as one, and every separator too.
encontrou_digito_ou_separador(a, b, digitos) == b > a

\* encontrou_digito after the loop over source[a:b]
encontrou_digito(a, b, digitos) == \E i \in a..(b - 1) : ch_at(i) \in digitos

\* The type without the test of the exponent.
tipo_numerico_sem_expoente(tem_ponto, tem_expoente, sufixo_f) ==
    IF sufixo_f \/ tem_ponto THEN "FLOAT_LITERAL" ELSE "INT_LITERAL"

\* tipo, as lines 186 and 243-248 set it
tipo_numerico(tem_ponto, tem_expoente, sufixo_f) ==
    IF sufixo_f \/ tem_ponto \/ tem_expoente THEN "FLOAT_LITERAL" ELSE "INT_LITERAL"

\* The suffixes, the type and the token (lines 238-250) of the literal that
\* began at inicio and whose digits end at lx.
sufixos(inicio, lx, tem_ponto, tem_expoente) ==
    Bind(avancar_while(lx, IntSuffixes), LAMBDA suf :
    Bind(eh_sufixo_float(ch_atual(suf)), LAMBDA sufixo_f :
    Bind(IF sufixo_f THEN avancar(suf) ELSE suf, LAMBDA fim :
    Ok(fim, << Token(tipo_numerico(tem_ponto, tem_expoente, sufixo_f),
                     Slice(inicio.pos, fim.pos), inicio.linha, inicio.coluna) >>))))

\* 0b... and 0x... (lines 192-201 and 205-214)
prefixado(inicio, digitos, mensagem) ==
    Bind(avancar(avancar(inicio)), LAMBDA corpo :
    Bind(avancar_while(corpo, digitos \cup Separador), LAMBDA fim_corpo :
    IF ~encontrou_digito(corpo.pos, fim_corpo.pos, digitos)
    THEN RaiseAt(fim_corpo, mensagem, inicio.linha, inicio.coluna)
    ELSE sufixos(inicio, fim_corpo, FALSE, FALSE)))

\* decimal and float (lines 220-236)
decimal(inicio) ==
    Bind(avancar_while(inicio, DecChars \cup Separador), LAMBDA inteiro :
    Bind(ch_atual(inteiro) = ".", LAMBDA tem_ponto :
    Bind(IF tem_ponto THEN avancar_while(avancar(inteiro), DecChars \cup Separador)
         ELSE inteiro, LAMBDA fracao :
    Bind(lower(ch_atual(fracao)) = "e", LAMBDA tem_expoente :
    Bind(IF ~tem_expoente THEN fracao
         ELSE IF ch_atual(avancar(fracao)) \in {"+", "-"}
         THEN avancar_while(avancar(avancar(fracao)), DecChars \cup Separador)
         ELSE avancar_while(avancar(fracao), DecChars \cup Separador), LAMBDA expoente :
    sufixos(inicio, expoente, tem_ponto, tem_expoente))))))

reconhece_literais_numericos(lx) ==
    IF ch_atual(lx) = "0" /\ lower(ch_proximo(lx)) = "b"
    THEN prefixado(lx, BinChars, "erro lexico: literal binario sem digitos")
    ELSE IF ch_atual(lx) = "0" /\ lower(ch_proximo(lx)) = "x"
    THEN prefixado(lx, HexChars, "erro lexico: literal hexadecimal sem digitos")
    ELSE decimal(lx)

\* A name returned with the cursor left where the name began.
reconhece_identificadores_sem_avancar(lx) ==
    Ok(lx, << Token("IDENTIFIER", ch_atual(lx), lx.linha, lx.coluna) >>)

reconhece_identificadores(lx) ==
    Bind(avancar_while(lx, IdentChars), LAMBDA fim :
    Bind(Slice(lx.pos, fim.pos), LAMBDA lexema :
    Ok(fim, << Token(IF lexema \in HARD_KEYWORDS THEN "HARD_KEYWORDS"
                     ELSE IF lexema \in MODIFIER_KEYWORDS THEN "MODIFIER_KEYWORDS"
                     ELSE IF lexema \in SOFT_KEYWORDS THEN "SOFT_KEYWORDS"
                     ELSE "IDENTIFIER", lexema, lx.linha, lx.coluna) >>)))

reconhece_identificador_crase(lx) ==
    Bind(avancar_until(avancar(lx), Crase), LAMBDA fim :
    IF ch_atual(fim) # Crase
    THEN RaiseAt(fim, "Identificador com crase nao fechado", lx.linha, lx.coluna)
    ELSE Ok(avancar(fim), << Token("Quoted_identifier", Slice(lx.pos + 1, fim.pos),
                                   lx.linha, lx.coluna) >>))

\* for tamanho in (3,2,1): the first size whose slice is a key; no token is None
reconhece_operadores(lx) ==
    IF \E size \in 1..3 : In(Slice(lx.pos, lx.pos + size), OPERADORES)
    THEN Bind(CHOOSE size \in 1..3 :
                 /\ In(Slice(lx.pos, lx.pos + size), OPERADORES)
                 /\ \A longer \in (size + 1)..3 : ~In(Slice(lx.pos, lx.pos + longer), OPERADORES),
              LAMBDA tamanho :
         Bind(Slice(lx.pos, lx.pos + tamanho), LAMBDA lexema :
         Ok(avancar_n(lx, tamanho),
            << Token(Lookup(lexema, OPERADORES), lexema, lx.linha, lx.coluna) >>)))
    ELSE Ok(lx, <<>>)

\* Without the negated keywords.
CompositeKeywordsSemNegacao == {"as?"}

CompositeKeywords == {"as?", "!in", "!is"}

\* The composite keyword is recognised and the cursor stays where it is.
reconhece_hard_keyword_composta_sem_avancar(lx) ==
    Bind(Slice(lx.pos, lx.pos + 3), LAMBDA kw :
    IF kw \in {"as?", "!in", "!is"}
    THEN Ok(lx, << Token("HARD_KEYWORD", kw, lx.linha, lx.coluna) >>)
    ELSE Ok(lx, <<>>))

\* source.startswith(kw, pos) for the three keywords, all of length 3
reconhece_hard_keyword_composta(lx) ==
    Bind(Slice(lx.pos, lx.pos + 3), LAMBDA kw :
    IF kw \in CompositeKeywords
    THEN Ok(avancar_n(lx, 3), << Token("HARD_KEYWORD", kw, lx.linha, lx.coluna) >>)
    ELSE Ok(lx, <<>>))

reconhece_char_literal(lx) ==
    Bind(avancar(lx), LAMBDA aberto :
    IF ch_atual(aberto) \in {NUL, "\n"}
    THEN Raise(aberto, "erro lexico: literal de caractere invalido")
    ELSE IF ch_atual(aberto) = "\\" /\ ch_proximo(aberto) = NUL
    THEN Raise(avancar(aberto), "erro lexico: escape invalido em char")
    ELSE Bind(IF ch_atual(aberto) = "\\" THEN avancar(avancar(aberto))
              ELSE avancar(aberto), LAMBDA conteudo :
         IF ch_atual(conteudo) # "'"
         THEN RaiseAt(conteudo, "erro lexico: literal de caractere invalido na linha",
                      lx.linha, lx.coluna)
         ELSE Bind(avancar(conteudo), LAMBDA fechado :
              Ok(fechado, << Token("CHAR_LITERAL", Slice(fechado.pos - 3, fechado.pos),
                                   lx.linha, lx.coluna) >>))))

\* ---------------------------------------------------------------- Lexer: strings
\* The state of the loop over a string: s = [lx, tokens, buffer,
\* buffer_linha, buffer_coluna].
\* A STRING_TEXT for the buffer even when it is empty.
FlushVazio(s) ==
    Append(s.tokens, Token("STRING_TEXT", s.buffer, s.buffer_linha, s.buffer_coluna))

\* if buffer: tokens.append(STRING_TEXT ...)
Flush(s) ==
    IF s.buffer # ""
    THEN Append(s.tokens, Token("STRING_TEXT", s.buffer, s.buffer_linha, s.buffer_coluna))
    ELSE s.tokens

\* After an interpolation: the tokens so far, an empty buffer that starts at lx.
Resume(lx, tokens_out) ==
    [lx |-> lx, tokens |-> tokens_out, buffer |-> "",
     buffer_linha |-> lx.linha, buffer_coluna |-> lx.coluna]

RECURSIVE interpolada_loop(_)
interpolada_loop(s) ==
    Bind(ch_atual(s.lx), LAMBDA ch :
    IF ch = NUL THEN Raise(s.lx, "erro lexico: string nao fechada")
    ELSE IF ch = "\""
    THEN Ok(avancar(s.lx),
            Append(Flush(s), Token("STRING_END", "\"", s.lx.linha, s.lx.coluna)))
    ELSE IF ch = "$"
    THEN Bind(avancar(s.lx), LAMBDA dollar :
         IF ch_atual(dollar) = "{"
         THEN Bind(avancar(dollar), LAMBDA expr_inicio :
              Bind(avancar_until(expr_inicio, "}"), LAMBDA expr_fim :
              IF ch_atual(expr_fim) # "}"
              THEN Raise(expr_fim, "erro lexico: interpolacao nao fechada")
              ELSE interpolada_loop(Resume(avancar(expr_fim),
                     Flush(s) \o
                     << Token("STRING_INTERP_START", "${", dollar.linha, dollar.coluna),
                        Token("STRING_INTERP_EXPR", Slice(expr_inicio.pos, expr_fim.pos),
                              expr_inicio.linha, expr_inicio.coluna),
                        Token("STRING_INTERP_END", "}", expr_fim.linha, expr_fim.coluna) >>))))
         ELSE Bind(avancar_while(dollar, IdentChars), LAMBDA ident_fim :
              IF ident_fim.pos = dollar.pos
              THEN RaiseAt(ident_fim, "erro lexico: interpolacao invalida",
                           ident_fim.linha, ident_fim.coluna)
              ELSE interpolada_loop(Resume(ident_fim,
                     Append(Flush(s), Token("STRING_INTERP_ID",
                                            Slice(dollar.pos, ident_fim.pos),
                                            ident_fim.linha, ident_fim.coluna))))))
    ELSE IF ch = "\\"
    THEN interpolada_loop([s EXCEPT !.lx = avancar(avancar(@)),
                                    !.buffer = @ \o ch \o ch_proximo(s.lx)])
    ELSE interpolada_loop([s EXCEPT !.lx = avancar(@), !.buffer = @ \o ch]))

reconhece_string_interpolada(lx) ==
    interpolada_loop(Resume(avancar(lx), << Token("STRING_START", "\"", lx.linha, lx.coluna) >>))

\* ---------------------------------------------------------------- Lexer: proximo_token, tokenize
RECURSIVE proximo_token(_)
proximo_token(lx0) ==
    IF lx0.pos = 0 /\ ch_atual(lx0) = "#" /\ ch_proximo(lx0) = "!"
    THEN proximo_token(pular_linha(lx0))
    ELSE Bind(pular_espaco(lx0), LAMBDA lx :
         Bind(ch_atual(lx), LAMBDA ch :
         IF ch = NUL THEN Ok(lx, << Token("EOF", "", lx.linha, lx.coluna) >>)
         ELSE IF ch = "/" /\ ch_proximo(lx) = "/"
         THEN proximo_token(pular_comentario_linha(lx))
         ELSE IF ch = "/" /\ ch_proximo(lx) = "*"
         THEN Bind(pular_comentario_blocos(lx), LAMBDA com :
              IF com.err # "" THEN com ELSE proximo_token(com.lx))
         ELSE IF isalpha(ch) \/ ch = "_" THEN reconhece_identificadores(lx)
         ELSE IF isdigit(ch) THEN reconhece_literais_numericos(lx)
         ELSE IF ch = "\"" THEN reconhece_string_interpolada(lx)
         ELSE IF ch = "'" THEN reconhece_char_literal(lx)
         ELSE IF ch = Crase THEN reconhece_identificador_crase(lx)
         ELSE Bind(reconhece_hard_keyword_composta(lx), LAMBDA kw :
              IF kw.toks # <<>> THEN kw
              ELSE Bind(reconhece_operadores(lx), LAMBDA op :
                   IF op.toks # <<>> THEN op
                   ELSE IF In(ch, SIMBOLOS)
                   THEN Bind(avancar(lx), LAMBDA depois :
                        Ok(depois, << Token(Lookup(ch, SIMBOLOS), ch,
                                            depois.linha, depois.coluna - 1) >>))
                   ELSE RaiseAt(lx, "erro lexico: caractere", lx.linha, lx.coluna)))))

\* State shared by the instances: the new instance goes on where the others are.
LexerCompartilhado(outros) == outros

\* Lexer(source) when other instances exist, in the states `outros`: pos,
\* linha and coluna are attributes of the new instance.
Lexer(outros) == NewLexer

\* tokenize(): the whole loop; the tokens it returns, or the exception.
RECURSIVE tokenize_loop(_, _)
tokenize_loop(lx, tokens_acc) ==
    Bind(proximo_token(lx), LAMBDA tk :
    IF tk.err # "" THEN tk
    ELSE IF tk.toks[Len(tk.toks)].tipo = "EOF" THEN Ok(tk.lx, tokens_acc \o tk.toks)
    ELSE tokenize_loop(tk.lx, tokens_acc \o tk.toks))

tokenize(lx) == tokenize_loop(lx, <<>>)

\* ---------------------------------------------------------------- inputs
T(tipo, lexema) == <<tipo, lexema>>

DeclPhrases == {
    << T("SEMICOLON", ";") >>,
    << T("RBRACE", "}") >>,
    << T("AT", "@") >>,
    << T("KW_CLASS", "class"), T("IDENTIFIER", "Foo"), T("LBRACE", "{") >>,
    << T("KW_VAL", "val"), T("IDENTIFIER", "x") >>,
    << T("KW_VAR", "var"), T("IDENTIFIER", "dd") >>,
    << T("OP_ASSIGN", "="), T("INT_LITERAL", "1") >>,
    << T("COLON", ":") >>,
    << T("INT_LITERAL", "99") >>,
    << T("MOD_PUBLIC", "public") >> }

AnyPhrases == {
    << T("SEMICOLON", ";") >>, << T("RBRACE", "}") >>, << T("LBRACE", "{") >>,
    << T("AT", "@") >>, << T("LPAREN", "(") >>, << T("RPAREN", ")") >>,
    << T("COMMA", ",") >>, << T("COLON", ":") >>, << T("DOT", ".") >>,
    << T("OP_ASSIGN", "=") >>, << T("IDENTIFIER", "x") >>, << T("INT_LITERAL", "1") >>,
    << T("OP_PLUS", "+") >>, << T("OP_NOT", "!") >>, << T("OP_NOT_NULL", "!!") >>,
    << T("MOD_PUBLIC", "public") >>, << T("KW_ELSE", "else") >>,
    << T("STRING_START", "\"") >>, << T("STRING_INTERP_START", "${") >>,
    << T("KW_PACKAGE", "package") >>, << T("SK_IMPORT", "import") >>,
    << T("IMPORT", "import") >>,
    << T("KW_CLASS", "class"), T("IDENTIFIER", "Foo"), T("LBRACE", "{") >>,
    << T("KW_OBJECT", "object"), T("LBRACE", "{") >>,
    << T("KW_FUN", "fun"), T("IDENTIFIER", "f"), T("LPAREN", "(") >>,
    << T("KW_VAL", "val"), T("IDENTIFIER", "x") >>,
    << T("KW_IF", "if"), T("LPAREN", "(") >>,
    << T("KW_FOR", "for"), T("LPAREN", "(") >> }

\* Expression streams: the operands are named a, b, c, ... in order of
\* appearance; a phrase is an operand or an operator with its right operand,
\* with a parenthesis opened before the operand or closed after it.
\* how many tokens of a kind a stream holds
Count(stream, tipo) == Cardinality({i \in 1..Len(stream) : stream[i][1] = tipo})

Names == <<"a", "b", "c", "d", "e", "f", "g", "h">>
OperandName == Names[1 + Count(toks, "IDENTIFIER")]

BinaryOperators == {
    T("OP_ELVIS", "?:"), T("OP_OR", "||"), T("OP_AND", "&&"), T("OP_EQ", "=="),
    T("OP_LT", "<"), T("OP_PLUS", "+"), T("OP_MUL", "*") }

ExprPhrases ==
    { << T("IDENTIFIER", OperandName) >>,
      << T("LPAREN", "("), T("IDENTIFIER", OperandName) >> }
    \cup { << op, T("IDENTIFIER", OperandName) >> : op \in BinaryOperators }
    \cup { << op, T("LPAREN", "("), T("IDENTIFIER", OperandName) >> : op \in BinaryOperators }
    \cup { << op, T("IDENTIFIER", OperandName), T("RPAREN", ")") >> : op \in BinaryOperators }

\* ---------------------------------------------------------------- the parser as a state machine
Init ==
    /\ toks = <<>>
    /\ nput = 0
    /\ pc = "input"
    /\ ps = NewParser
    /\ file = NoneNode
    /\ source = <<>>
    /\ lex = NewLexer
    /\ tokens = <<>>
    /\ erro = NoException
    /\ out = <<>>
    /\ last = NoCalls

\* The token stream gets one more phrase.
PutDecl ==
    /\ pc = "input"
    /\ nput < MaxDecl
    /\ \E ph \in DeclPhrases : toks' = toks \o ph
    /\ nput' = nput + 1
    /\ UNCHANGED <<pc, ps, file, source, lex, tokens, erro, out, last>>

\* Parser(ts).parse() up to the declaration loop (lines 162-169).
ParseBegin ==
    /\ pc = "input"
    /\ \E h \in {parse_header(NewParser)} :
          /\ ps' = h.p
          /\ file' = h.node
          /\ pc' = IF h.p.raised THEN "raised" ELSE "decls"
    /\ UNCHANGED <<toks, nput, source, lex, tokens, erro, out, last>>

\* One iteration of `while peek().tipo != "EOF"` (lines 171-179).  A program
\* whose loop made no progress spins there: the model marks it and stops.
ParseDecl ==
    /\ pc = "decls"
    /\ ~ps.stalled
    /\ peek(ps, 0).tok.tipo # "EOF"
    /\ \E it \in {parse_decl_iteration(peek(ps, 0).p, file)} :
          /\ ps' = IF it.brk \/ Progress(ps, it.p) THEN it.p ELSE Stall(it.p)
          /\ file' = it.node
          /\ pc' = IF it.p.raised THEN "raised" ELSE IF it.brk THEN "done" ELSE "decls"
    /\ UNCHANGED <<toks, nput, source, lex, tokens, erro, out, last>>

\* The loop condition sees EOF: return file_node (line 180).
ParseReturn ==
    /\ pc = "decls"
    /\ ~ps.stalled
    /\ peek(ps, 0).tok.tipo = "EOF"
    /\ ps' = peek(ps, 0).p
    /\ pc' = IF peek(ps, 0).p.raised THEN "raised" ELSE "done"
    /\ UNCHANGED <<toks, nput, file, source, lex, tokens, erro, out, last>>

\* Parser(ts)._panic_recover() on a fresh parser.
PanicRecover ==
    /\ pc = "input"
    /\ ps' = panic_recover(NewParser)
    /\ pc' = "recovered"
    /\ UNCHANGED <<toks, nput, file, source, lex, tokens, erro, out, last>>

NextP == PutDecl \/ ParseBegin \/ ParseDecl \/ ParseReturn \/ PanicRecover

\* Declaration-level token streams: parse() and _panic_recover().
SpecP == Init /\ [][NextP]_vars

PutAny ==
    /\ pc = "input"
    /\ nput < MaxAny
    /\ \E ph \in AnyPhrases : toks' = toks \o ph
    /\ nput' = nput + 1
    /\ UNCHANGED <<pc, ps, file, source, lex, tokens, erro, out, last>>

NextAll == PutAny \/ ParseBegin \/ ParseDecl \/ ParseReturn

\* Token streams over the whole vocabulary: parse().
SpecAll == Init /\ [][NextAll]_vars

PutExpr ==
    /\ pc = "input"
    /\ nput < MaxExpr
    /\ \E ph \in ExprPhrases :
          /\ Count(toks \o ph, "LPAREN") <= MaxParen
          /\ toks' = toks \o ph
    /\ nput' = nput + 1
    /\ UNCHANGED <<pc, ps, file, source, lex, tokens, erro, out, last>>

\* Parser(ts).parse_expression() on a fresh parser.
ParseExpression ==
    /\ pc = "input"
    /\ \E r \in {Call("parse_expression", NewParser, 0)} :
          /\ ps' = r.p
          /\ file' = r.node
    /\ pc' = "expr"
    /\ UNCHANGED <<toks, nput, source, lex, tokens, erro, out, last>>

NextE == PutExpr \/ ParseExpression

\* Expression token streams: parse_expression().
SpecE == Init /\ [][NextE]_vars

\* ---------------------------------------------------------------- chains of binary operators
\* Every operator of every binary level, the two-token ones included.
ChainOperators ==
    { << T("OP_ELVIS", "?:") >>, << T("OP_OR", "||") >>, << T("OP_AND", "&&") >>,
      << T("OP_EQ", "==") >>, << T("OP_NEQ", "!=") >>,
      << T("OP_EQ_STRICT", "===") >>, << T("OP_NEQ_STRICT", "!==") >>,
      << T("OP_GE", ">=") >>, << T("OP_LE", "<=") >>, << T("OP_GT", ">") >>, << T("OP_LT", "<") >>,
      << T("OP_RANGE", "..") >>, << T("OP_RANGE_UNTIL", "..<") >>,
      << T("KW_IN", "in") >>, << T("KW_IS", "is") >>, << T("KW_AS", "as") >>,
      << T("KW_AS", "as"), T("QUESTION", "?") >>,
      << T("OP_NOT", "!"), T("KW_IN", "in") >>, << T("OP_NOT", "!"), T("KW_IS", "is") >>,
      << T("OP_PLUS", "+") >>, << T("OP_MINUS", "-") >>,
      << T("OP_PLUS_ASSIGN", "+=") >>, << T("OP_MINUS_ASSIGN", "-=") >>,
      << T("OP_MUL", "*") >>, << T("OP_DIV", "/") >>, << T("OP_MOD", "%") >> }

\* The stream gets its first operand, or an operator and one more operand.
PutOperand ==
    /\ pc = "input"
    /\ nput < MaxOperands
    /\ IF toks = <<>>
       THEN toks' = << T("IDENTIFIER", OperandName) >>
       ELSE \E op \in ChainOperators : toks' = toks \o op \o << T("IDENTIFIER", OperandName) >>
    /\ nput' = nput + 1
    /\ UNCHANGED <<pc, ps, file, source, lex, tokens, erro, out, last>>

NextA == PutOperand \/ ParseExpression

\* Chains of operands and binary operators: parse_expression().
SpecA == Init /\ [][NextA]_vars

\* ---------------------------------------------------------------- expressions token by token
\* Names, the access operators, a token that starts no expression, a binary
\* operator, the unary operators, and the tokens of the relational keywords.
ChainTokens == {
    T("IDENTIFIER", OperandName), T("OP_NOT_NULL", "!!"), T("DOT", "."),
    T("OP_SAFE_CALL", "?."), T("AT", "@"), T("OP_PLUS", "+"), T("OP_MINUS", "-"),
    T("OP_NOT", "!"), T("KW_AS", "as"), T("KW_IN", "in"), T("KW_IS", "is"),
    T("QUESTION", "?") }

\* The token stream gets one more token.
PutChainToken ==
    /\ pc = "input"
    /\ nput < MaxChain
    /\ \E t \in ChainTokens : toks' = Append(toks, t)
    /\ nput' = nput + 1
    /\ UNCHANGED <<pc, ps, file, source, lex, tokens, erro, out, last>>

NextC == PutChainToken \/ ParseExpression

\* Expression token streams, token by token: parse_expression().
SpecC == Init /\ [][NextC]_vars

\* ---------------------------------------------------------------- property declarations as inputs
\* A property up to its ':', and the tokens that may follow it.
PropertyHeads == {
    << T("KW_VAL", "val"), T("IDENTIFIER", "x"), T("COLON", ":") >>,
    << T("KW_VAR", "var"), T("IDENTIFIER", "dd"), T("COLON", ":") >> }

PropertyTails == {
    << T("IDENTIFIER", "Int") >>,
    << T("INT_LITERAL", "99") >>,
    << T("FLOAT_LITERAL", "1.5") >>,
    << T("CHAR_LITERAL", "'c'") >>,
    << T("STRING_START", "\""), T("STRING_TEXT", "s"), T("STRING_END", "\"") >>,
    << T("LPAREN", "(") >>,
    << T("RPAREN", ")") >>,
    << T("QUESTION", "?") >>,
    << T("OP_ASSIGN", "=") >>,
    << T("OP_PLUS", "+") >>,
    << T("SEMICOLON", ";") >> }

\* The token stream gets the head of a property, then one more token.
PutProperty ==
    /\ pc = "input"
    /\ nput < MaxTail + 1
    /\ \E ph \in IF toks = <<>> THEN PropertyHeads ELSE PropertyTails :
          /\ Count(toks \o ph, "LPAREN") <= MaxParen
          /\ toks' = toks \o ph
    /\ nput' = nput + 1
    /\ UNCHANGED <<pc, ps, file, source, lex, tokens, erro, out, last>>

NextD == PutProperty \/ ParseBegin \/ ParseDecl \/ ParseReturn

\* Properties with a ':' : parse().
SpecD == Init /\ [][NextD]_vars

\* ---------------------------------------------------------------- members with modifiers
\* A class, and in its body modifiers, members, an object and closing braces.
MemberPhrases == {
    << T("MOD_PUBLIC", "public") >>,
    << T("MOD_PRIVATE", "private") >>,
    << T("KW_OBJECT", "object"), T("LBRACE", "{") >>,
    << T("KW_FUN", "fun"), T("IDENTIFIER", "f"), T("LPAREN", "("), T("RPAREN", ")"),
       T("LBRACE", "{"), T("RBRACE", "}") >>,
    << T("KW_VAL", "val"), T("IDENTIFIER", "x"), T("SEMICOLON", ";") >>,
    << T("RBRACE", "}") >> }

PutMember ==
    /\ pc = "input"
    /\ nput < MaxMember + 1
    /\ IF toks = <<>>
       THEN toks' = << T("KW_CLASS", "class"), T("IDENTIFIER", "Foo"), T("LBRACE", "{") >>
       ELSE \E ph \in MemberPhrases : toks' = toks \o ph
    /\ nput' = nput + 1
    /\ UNCHANGED <<pc, ps, file, source, lex, tokens, erro, out, last>>

NextO == PutMember \/ ParseBegin \/ ParseDecl \/ ParseReturn

\* Class and object bodies with modifiers: parse().
SpecO == Init /\ [][NextO]_vars

\* ---------------------------------------------------------------- a token stream that fails
\* The lexer raises on the next request: the source goes on with a string
\* that is never closed, which leaves the lexer at the end of the source, so
\* that the requests after the failing one deliver EOF.
SourceFails == toks # <<>> /\ toks[Len(toks)][1] = "EXCEPTION"

PutFailure ==
    /\ pc = "input"
    /\ ~SourceFails
    /\ toks' = Append(toks, T("EXCEPTION", "erro lexico: string nao fechada"))
    /\ UNCHANGED <<nput, pc, ps, file, source, lex, tokens, erro, out, last>>

\* The tokens before the failure.
PutBeforeFailure ==
    /\ ~SourceFails
    /\ PutDecl

NextX == PutBeforeFailure \/ PutFailure \/ ParseBegin \/ ParseDecl \/ ParseReturn

\* Declaration-level token streams that end in a lexical failure: parse().
SpecX == Init /\ [][NextX]_vars

\* ---------------------------------------------------------------- the TokenStreamWrapper as a state machine
StreamTokens == { T("IDENTIFIER", "x"), T("SEMICOLON", ";") }

\* The underlying token stream holds one more token.
PutToken ==
    /\ pc = "input"
    /\ Len(toks) < MaxStream
    /\ \E t \in StreamTokens : toks' = Append(toks, t)
    /\ UNCHANGED <<nput, pc, ps, file, source, lex, tokens, erro, out, last>>

\* TokenStreamWrapper.peek(n)
WrapperPeek ==
    /\ pc \in {"input", "wrapper"}
    /\ \E n \in 0..MaxPeek : \E r \in {peek(ps, n)} :
          /\ r.p.k <= MaxPull
          /\ ps' = r.p
          /\ last' = [now |-> WrapperCall("peek", n, r.tok), before |-> last.now]
    /\ pc' = "wrapper"
    /\ UNCHANGED <<toks, nput, file, source, lex, tokens, erro, out>>

\* TokenStreamWrapper.next()
WrapperNext ==
    /\ pc \in {"input", "wrapper"}
    /\ \E r \in {next(ps)} :
          /\ r.p.k <= MaxPull
          /\ ps' = r.p
          /\ out' = Append(out, r.tok)
          /\ last' = [now |-> WrapperCall("next", 0, r.tok), before |-> last.now]
    /\ pc' = "wrapper"
    /\ UNCHANGED <<toks, nput, file, source, lex, tokens, erro>>

NextW == PutToken \/ WrapperPeek \/ WrapperNext

\* Interleavings of peek(n) and next() on a TokenStreamWrapper.
SpecW == Init /\ [][NextW]_vars

\* ---------------------------------------------------------------- the lexer as a state machine
\* Source texts: texts of operator characters, of the characters of numeric
\* literals, of the characters of block comments, and the samples.
OperatorChars == {"=", "!", "<", ">", ".", "+", "-", "?", ":", "&", "|", "*", "/"}
NumberChars == {"0", "1", "b", "x", "_", ".", "e", "-", "f", "L"}
CommentChars == {"/", "*", "a"}

Sample0b == <<"0", "b", "1", "0", "1", "0", "_", "0", "1", "1", "0">>
Sample0x == <<"0", "x", "D", "E", "A", "D", "_", "B", "E", "E", "F">>
Sample123UL == <<"1", "2", "3", "U", "L">>
Sample314f == <<"3", ".", "1", "4", "f">>
SampleExp == <<"1", ".", "0", "e", "-", "1", "0">>
SampleNested ==
    <<"/", "*", " ", "a", " ", "/", "*", " ", "b", " ", "*", "/", " ", "c", " ", "*", "/">>
Samples == {Sample0b, Sample0x, Sample123UL, Sample314f, SampleExp, SampleNested}

OnlyChars(chars) == \A i \in DOMAIN source : source[i] \in chars

\* Lexer(source): the source text gets one more character, or is a sample.
PutOperatorChar ==
    /\ pc = "input"
    /\ Len(source) < MaxOperator
    /\ OnlyChars(OperatorChars)
    /\ \E ch \in OperatorChars : source' = Append(source, ch)
    /\ UNCHANGED <<lex, tokens, toks, nput, pc, ps, file, erro, out, last>>

PutNumberChar ==
    /\ pc = "input"
    /\ Len(source) < MaxNumber
    /\ OnlyChars(NumberChars)
    /\ \E ch \in NumberChars :
          /\ source = <<>> => isdigit(ch)
          /\ source' = Append(source, ch)
    /\ UNCHANGED <<lex, tokens, toks, nput, pc, ps, file, erro, out, last>>

PutCommentChar ==
    /\ pc = "input"
    /\ Len(source) < MaxComment
    /\ OnlyChars(CommentChars)
    /\ \E ch \in CommentChars : source' = Append(source, ch)
    /\ UNCHANGED <<lex, tokens, toks, nput, pc, ps, file, erro, out, last>>

PutSample ==
    /\ pc = "input"
    /\ source = <<>>
    /\ \E sample \in Samples : source' = sample
    /\ UNCHANGED <<lex, tokens, toks, nput, pc, ps, file, erro, out, last>>

\* tokenize(): one iteration of its loop, proximo_token() returning tokens
\* of which the last is not EOF.
ProximoToken ==
    /\ pc \in {"input", "lexing"}
    /\ \E r \in {proximo_token(lex)} :
          /\ r.err = ""
          /\ r.toks[Len(r.toks)].tipo # "EOF"
          /\ tokens' = tokens \o r.toks
          /\ lex' = r.lx
    /\ pc' = "lexing"
    /\ UNCHANGED <<source, toks, nput, ps, file, erro, out, last>>

\* tokenize(): proximo_token() returns EOF, the loop ends and the tokens are returned.
TokenizeReturn ==
    /\ pc \in {"input", "lexing"}
    /\ \E r \in {proximo_token(lex)} :
          /\ r.err = ""
          /\ r.toks[Len(r.toks)].tipo = "EOF"
          /\ tokens' = tokens \o r.toks
          /\ lex' = r.lx
    /\ pc' = "eof"
    /\ UNCHANGED <<source, toks, nput, ps, file, erro, out, last>>

\* tokenize(): proximo_token() raises; the call adds no token.
LexicalFailure ==
    /\ pc \in {"input", "lexing"}
    /\ \E r \in {proximo_token(lex)} :
          /\ r.err # ""
          /\ lex' = r.lx
          /\ erro' = Exception(r)
    /\ pc' = "error"
    /\ UNCHANGED <<source, tokens, toks, nput, ps, file, out, last>>

NextL ==
    \/ PutOperatorChar \/ PutNumberChar \/ PutCommentChar \/ PutSample
    \/ ProximoToken \/ TokenizeReturn \/ LexicalFailure

\* Source texts: Lexer(source).tokenize().
SpecL == Init /\ [][NextL]_vars

\* Source texts of the characters of the composite keywords and of the
\* characters of string literals, and texts that end in a lexical failure.
KeywordChars == {"!", "i", "n", "s", "a", "?", " "}
StringChars == {"\"", "$", "{", "}", "a", "\\"}

SampleSum == <<"\"", "s", "u", "m", "=", "$", "{", "a", "+", "b", "}", " ", "e", "n", "d", "\"">>
SampleRange == <<"0", ".", ".", "1", "0">>
FailureSamples == {
    \* an unterminated block comment
    <<"a", "\n", " ", "/", "*", " ", "b">>,
    \* an unterminated string
    <<"\n", "\"", "a", "b">>,
    \* an unterminated ${ block
    <<"\"", "$", "{", "a">>,
    \* a character literal cut by the end of the line, and by the end of the text
    <<"'", "\n">>,
    <<"a", " ", "'">>,
    \* an escape cut by the end of the text
    <<"'", "\\">>,
    \* a character literal that is not closed after one character
    <<"\n", " ", "'", "a", "b", "'">>,
    \* an unterminated quoted identifier
    <<"\n", " ", Crase, "a", "b">>,
    \* a $ that starts no interpolation
    <<"\"", "a", "$", " ", "\"">>,
    \* a character no token starts with
    <<"a", "\n", " ", " ", "#">>,
    \* a binary and a hexadecimal literal without digits
    <<"\n", " ", "0", "b">>,
    <<"0", "x", "_">> }

PutKeywordChar ==
    /\ pc = "input"
    /\ Len(source) < MaxKeyword
    /\ OnlyChars(KeywordChars)
    /\ \E ch \in KeywordChars : source' = Append(source, ch)
    /\ UNCHANGED <<lex, tokens, toks, nput, pc, ps, file, erro, out, last>>

\* A text that begins with the quote of a string literal.
PutStringChar ==
    /\ pc = "input"
    /\ Len(source) < MaxString
    /\ OnlyChars(StringChars)
    /\ \E ch \in StringChars :
          /\ source = <<>> => ch = "\""
          /\ source' = Append(source, ch)
    /\ UNCHANGED <<lex, tokens, toks, nput, pc, ps, file, erro, out, last>>

PutFailureSample ==
    /\ pc = "input"
    /\ source = <<>>
    /\ \E sample \in FailureSamples \cup {SampleSum, SampleRange} : source' = sample
    /\ UNCHANGED <<lex, tokens, toks, nput, pc, ps, file, erro, out, last>>

\* proximo_token() called again after it has returned EOF.
ProximoTokenAtEOF ==
    /\ pc \in {"eof", "after_eof"}
    /\ Cardinality({i \in DOMAIN tokens : tokens[i].tipo = "EOF"}) <= MaxAgain
    /\ \E r \in {proximo_token(lex)} :
          /\ tokens' = tokens \o r.toks
          /\ lex' = r.lx
          /\ erro' = IF r.err # "" THEN Exception(r) ELSE erro
    /\ pc' = "after_eof"
    /\ UNCHANGED <<source, toks, nput, ps, file, out, last>>

\* A second instance, Lexer(source), tokenizes the same text after the first.
TokenizeAgain ==
    /\ pc \in {"eof", "error"}
    /\ \E r \in {tokenize(Lexer(lex))} :
          /\ tokens' = r.toks
          /\ lex' = r.lx
          /\ erro' = IF r.err # "" THEN Exception(r) ELSE NoException
    /\ pc' = "again"
    /\ UNCHANGED <<source, toks, nput, ps, file, out, last>>

NextS ==
    \/ PutOperatorChar \/ PutKeywordChar \/ PutStringChar
    \/ PutSample \/ PutFailureSample
    \/ ProximoToken \/ TokenizeReturn \/ LexicalFailure
    \/ ProximoTokenAtEOF \/ TokenizeAgain

\* Source texts: Lexer(source).tokenize(), calls after EOF, a second instance.
SpecS == Init /\ [][NextS]_vars

\* Source texts of the characters of character literals.
CharLiteralChars == {"'", "a", "\\", "\n", " "}

PutCharLiteralChar ==
    /\ pc = "input"
    /\ Len(source) < MaxCharText
    /\ OnlyChars(CharLiteralChars)
    /\ \E ch \in CharLiteralChars : source' = Append(source, ch)
    /\ UNCHANGED <<lex, tokens, toks, nput, pc, ps, file, erro, out, last>>

NextQ == PutCharLiteralChar \/ ProximoToken \/ TokenizeReturn \/ LexicalFailure

\* Source texts with character literals: Lexer(source).tokenize().
SpecQ == Init /\ [][NextQ]_vars

\* ---------------------------------------------------------------- from the source text to the tree
\* Program texts, phrase by phrase.
WordClassFoo == <<"c", "l", "a", "s", "s", " ", "F", "o", "o", " ">>
WordValX == <<"v", "a", "l", " ", "x", " ">>
WordVarDd == <<"v", "a", "r", " ", "d", "d", " ">>
WordPublic == <<"p", "u", "b", "l", "i", "c", " ">>
WordAssign1 == <<"=", " ", "1">>
ProgramWords ==
    { WordClassFoo, WordValX, WordVarDd, WordPublic, WordAssign1,
      <<"{", " ">>, <<"}">>, <<";">>,
      \* a character no token starts with
      <<"#">> }

PutWord ==
    /\ pc = "input"
    /\ nput < MaxWords
    /\ \E w \in ProgramWords : source' = source \o w
    /\ nput' = nput + 1
    /\ UNCHANGED <<lex, tokens, toks, pc, ps, file, erro, out, last>>

\* TokenStream(lexer): the tokens of the lexer are the stream of the parser,
\* kind and text as the lexer made them, up to the EOF.
LexedStream ==
    [i \in 1..(Len(tokens) - 1) |-> T(tokens[i].tipo, tokens[i].lexema)]

Feed ==
    /\ pc = "eof"
    /\ toks' = LexedStream
    /\ pc' = "fed"
    /\ UNCHANGED <<source, lex, tokens, nput, ps, file, erro, out, last>>

\* Parser(ts).parse() on the stream of the lexer, up to the declaration loop.
ParseLexed ==
    /\ pc = "fed"
    /\ \E h \in {parse_header(NewParser)} :
          /\ ps' = h.p
          /\ file' = h.node
          /\ pc' = "decls"
    /\ UNCHANGED <<toks, nput, source, lex, tokens, erro, out, last>>

NextZ ==
    \/ PutWord \/ ProximoToken \/ TokenizeReturn \/ LexicalFailure
    \/ Feed \/ ParseLexed \/ ParseDecl \/ ParseReturn

\* Source text -> Lexer -> token stream -> Parser.
SpecZ == Init /\ [][NextZ]_vars

\* tokenize() as a loop that runs to its end: the while True of tokenize()
\* calls proximo_token() again until it returns EOF or raises, so a step of
\* the loop is taken whenever one stays possible.
NextT ==
    \/ PutKeywordChar \/ PutFailureSample
    \/ ProximoToken \/ TokenizeReturn \/ LexicalFailure

SpecT ==
    /\ Init /\ [][NextT]_vars
    /\ WF_vars(ProximoToken \/ TokenizeReturn \/ LexicalFailure)

\* ================================================================ claims
\* ---------------------------------------------------------------- C1
\* C1: parse() terminates on every finite token stream.  No loop of the
\* parser finishes an iteration without having consumed a token of the input
\* (the loops stop when they see EOF), so the tokens left bound the iterations
\* left; and once parse() has returned, the result is a file node with at most
\* one declaration per token, the current token being EOF.
C1_ParseTerminates ==
    /\ ~ps.stalled
    /\ pc \in {"decls", "done"} =>
          /\ file.type = "kotlinFile"
          /\ Len(file.declarations) <= Min(Consumed(ps), Len(toks))
    /\ pc = "done" => tipo0(ps) = "EOF"

\* parse() has returned from a stream that made it recover and that declares something.
C1_Witness ==
    /\ pc = "done"
    /\ Len(toks) >= 3
    /\ ps.errors # <<>>
    /\ file.declarations # <<>>

\* ---------------------------------------------------------------- C2
\* Where the first synchronization token of the stream is (its EOF if none).
FirstSync ==
    CHOOSE i \in 1..(Len(toks) + 1) :
        /\ i <= Len(toks) => toks[i][1] \in panic_sync_tokens
        /\ \A j \in 1..(i - 1) : toks[j][1] \notin panic_sync_tokens

\* C2: _panic_recover() discards the tokens before the first SEMICOLON, RBRACE
\* or EOF; it consumes that token only if it is SEMICOLON, so that after a
\* recovery that stopped at '}' the current token is still that '}'.
C2_PanicLeavesRbrace ==
    pc = "recovered" =>
        IF FirstSync <= Len(toks) /\ toks[FirstSync][1] = "SEMICOLON"
        THEN Consumed(ps) = FirstSync
        ELSE /\ Consumed(ps) = FirstSync - 1
             /\ tipo0(ps) \in {"RBRACE", "EOF"}

\* ---------------------------------------------------------------- C3
\* An invalid token, ';', and a well-formed property declaration.
IsErrorThenProperty(stream) ==
    /\ Len(stream) = 5
    /\ stream[1][1] = "AT"
    /\ stream[2][1] = "SEMICOLON"
    /\ stream[3][1] \in PropertyKw
    /\ stream[4][1] = "IDENTIFIER"
    /\ stream[5][1] = "SEMICOLON"

\* C3: one forward scan per syntax error.  After the invalid top-level token
\* and the recovery that stops at the ';' behind it, parse() resumes at the
\* next token: the declaration that follows the ';' is in the declarations.
C3_OneScanPerError ==
    (pc = "done" /\ IsErrorThenProperty(toks)) =>
        /\ Len(file.declarations) = 1
        /\ file.declarations[1].type = "property"
        /\ file.declarations[1].name = toks[4][2]

\* ---------------------------------------------------------------- C4
\* class Foo { val x = 1 }
ClassFooTokens ==
    << T("KW_CLASS", "class"), T("IDENTIFIER", "Foo"), T("LBRACE", "{"),
       T("KW_VAL", "val"), T("IDENTIFIER", "x"), T("OP_ASSIGN", "="),
       T("INT_LITERAL", "1"), T("RBRACE", "}") >>

\* C4: for `class Foo { val x = 1 }` parse() returns a class Foo whose body
\* is the one property x with initializer literal 1, with a diagnostic for
\* the missing ';', and the current token is EOF.
C4_ClassFooRecovered ==
    (pc = "done" /\ toks = ClassFooTokens) =>
        /\ file.declarations =
             << [type |-> "class", name |-> "Foo", modifiers |-> <<>>,
                 body |-> LIST(<< [type |-> "property", kind |-> "KW_VAL", name |-> "x",
                                   var_type |-> None,
                                   value |-> [type |-> "literal", kind |-> "INT_LITERAL",
                                              value |-> "1"],
                                   modifiers |-> <<>>] >>)] >>
        /\ \E i \in 1..Len(ps.errors) :
               /\ ps.errors[i].mensagem
                    = "Ponto-e-vírgula esperado ao final da declaração de propriedade"
               /\ ps.errors[i].token = "}"
        /\ tipo0(ps) = "EOF"

\* parse() has returned from `class Foo { val x = 1 }`, with diagnostics.
C4_Witness ==
    /\ pc = "done"
    /\ toks = ClassFooTokens
    /\ ps.errors # <<>>
    /\ Consumed(ps) >= Len(toks)

\* ---------------------------------------------------------------- C5
\* val/var name : literal ;
IsColonLiteralProperty(stream) ==
    /\ Len(stream) = 5
    /\ stream[1][1] \in PropertyKw
    /\ stream[2][1] = "IDENTIFIER"
    /\ stream[3][1] = "COLON"
    /\ stream[4][1] = "INT_LITERAL"
    /\ stream[5][1] = "SEMICOLON"

\* C5: a property whose ':' is followed by a literal, as `var dd: 99;`, is a
\* property of that name, without a type, with the literal as initializer,
\* and the declaration adds exactly one diagnostic.
C5_TolerantProperty ==
    (pc = "done" /\ IsColonLiteralProperty(toks)) =>
        /\ file.declarations =
             << [type |-> "property", kind |-> toks[1][1], name |-> toks[2][2],
                 var_type |-> None,
                 value |-> [type |-> "literal", kind |-> "INT_LITERAL", value |-> toks[4][2]],
                 modifiers |-> <<>>] >>
        /\ Len(ps.errors) = 1

\* parse() has returned from `var dd : 99 ;`.
C5_Witness ==
    /\ pc = "done"
    /\ toks = << T("KW_VAR", "var"), T("IDENTIFIER", "dd"), T("COLON", ":"),
                 T("INT_LITERAL", "99"), T("SEMICOLON", ";") >>
    /\ file.declarations # <<>>
    /\ file.declarations[1].name = "dd"

\* ---------------------------------------------------------------- C6
\* The level of a binary operator in the chain
\* elvis < || < && < equality < relational < additive < multiplicative.
Level(op) ==
    CASE op = "?:" -> 1
      [] op = "||" -> 2
      [] op = "&&" -> 3
      [] op = "==" -> 4
      [] op = "<" -> 5
      [] op = "+" -> 6
      [] op = "*" -> 7

\* No operator of a lower level is a child of an operator of a higher level.
RECURSIVE PrecedenceRespected(_)
PrecedenceRespected(node) ==
    node.type = "binary" =>
        /\ node.left.type = "binary" => Level(node.left.op) >= Level(node.op)
        /\ node.right.type = "binary" => Level(node.right.op) >= Level(node.op)
        /\ PrecedenceRespected(node.left)
        /\ PrecedenceRespected(node.right)

Id(name) == [type |-> "identifier", name |-> name]
Operand(name) == T("IDENTIFIER", name)

\* C6: `a + b * c` is binary(+, a, binary(*, b, c)) and `a * b + c` is
\* binary(+, binary(*, a, b), c); in the tree of an expression without
\* parentheses no operator of a lower level is a child of one of a higher
\* level, and with parentheses it can be: `( a + b ) * c` is
\* binary(*, binary(+, a, b), c).
C6_Precedence ==
    pc = "expr" =>
        /\ toks = << Operand("a"), T("OP_PLUS", "+"), Operand("b"), T("OP_MUL", "*"), Operand("c") >>
             => file = Binary("+", Id("a"), Binary("*", Id("b"), Id("c")))
        /\ toks = << Operand("a"), T("OP_MUL", "*"), Operand("b"), T("OP_PLUS", "+"), Operand("c") >>
             => file = Binary("+", Binary("*", Id("a"), Id("b")), Id("c"))
        /\ Count(toks, "LPAREN") = 0 => PrecedenceRespected(file)
        /\ toks = << T("LPAREN", "("), Operand("a"), T("OP_PLUS", "+"), Operand("b"),
                     T("RPAREN", ")"), T("OP_MUL", "*"), Operand("c") >>
             => file = Binary("*", Binary("+", Id("a"), Id("b")), Id("c"))

\* parse_expression() has returned the tree of `a + b * c`.
C6_Witness ==
    /\ pc = "expr"
    /\ toks = << Operand("a"), T("OP_PLUS", "+"), Operand("b"), T("OP_MUL", "*"), Operand("c") >>
    /\ file.type = "binary"
    /\ file.right.type = "binary"
    /\ ps.errors = <<>>

\* ---------------------------------------------------------------- C7
OperatorKinds == {e[2] : e \in OPERADORES}
SingleLine == \A i \in DOMAIN source : source[i] # "\n"

\* The length of the longest of the 3-, 2- and 1-character prefixes of the
\* text at position p that is a key of the operator table (0 if none is).
IsOperatorAt(p, n) ==
    p + n <= Len(source) /\ In(Str(SubSeq(source, p + 1, p + n)), OPERADORES)
LongestOperator(p) ==
    CHOOSE n \in 0..3 :
        /\ n > 0 => IsOperatorAt(p, n)
        /\ \A m \in (n + 1)..3 : ~IsOperatorAt(p, m)

\* C7: maximal munch.  When proximo_token() has just returned an operator
\* token that starts at position p of a one-line source, the token's text is
\* the longest prefix of the text at p (3, then 2, then 1 characters) that is
\* a key of the operator table, and the cursor is at p plus the length of
\* that text; the source `===` gives one OP_EQ_STRICT token and EOF.
C7_MaximalMunch ==
    /\ (pc = "lexing" /\ SingleLine /\ tokens[Len(tokens)].tipo \in OperatorKinds) =>
          /\ Len(tokens[Len(tokens)].lexema) = LongestOperator(tokens[Len(tokens)].coluna - 1)
          /\ tokens[Len(tokens)].lexema =
                Str(SubSeq(source, tokens[Len(tokens)].coluna,
                           tokens[Len(tokens)].coluna - 1 + Len(tokens[Len(tokens)].lexema)))
          /\ lex.pos = tokens[Len(tokens)].coluna - 1 + Len(tokens[Len(tokens)].lexema)
    /\ (pc = "eof" /\ source = <<"=", "=", "=">>) =>
          /\ Len(tokens) = 2
          /\ tokens[1].tipo = "OP_EQ_STRICT"
          /\ tokens[1].lexema = "==="

\* ---------------------------------------------------------------- C8
\* Where the block comment whose text goes on at position i at depth `depth`
\* ends by depth tracking: each `/*` increments the depth, each `*/`
\* decrements it, the end is where it reaches 0; -1 if it never does.
RECURSIVE NestedEnd(_, _)
NestedEnd(i, depth) ==
    IF depth = 0 THEN i
    ELSE IF i >= Len(source) THEN -1
    ELSE IF i + 1 < Len(source) /\ source[i + 1] = "/" /\ source[i + 2] = "*"
    THEN NestedEnd(i + 2, depth + 1)
    ELSE IF i + 1 < Len(source) /\ source[i + 1] = "*" /\ source[i + 2] = "/"
    THEN NestedEnd(i + 2, depth - 1)
    ELSE NestedEnd(i + 1, depth)

StartsBlockComment == Len(source) >= 2 /\ source[1] = "/" /\ source[2] = "*"

\* C8: a block comment is skipped with depth tracking.  For a one-line
\* source that starts with `/*`: if the depth never returns to 0 the first
\* proximo_token() fails and there is no token; otherwise no token starts
\* inside the comment, and a token starts right at its end when the text goes
\* on there with a letter or a '*'.  `/* a /* b */ c */` gives EOF alone, at
\* column 18.
C8_NestedComments ==
    /\ (StartsBlockComment /\ SingleLine /\ pc # "input") =>
          IF NestedEnd(2, 1) = -1
          THEN pc = "error" /\ tokens = <<>>
          ELSE /\ \A i \in DOMAIN tokens : tokens[i].coluna - 1 >= NestedEnd(2, 1)
               /\ ch_at(NestedEnd(2, 1)) \in {"a", "*"} =>
                     /\ tokens # <<>>
                     /\ tokens[1].coluna - 1 = NestedEnd(2, 1)
    /\ (source = SampleNested /\ pc # "input") =>
          /\ pc = "eof"
          /\ tokens = << Token("EOF", "", 1, 18) >>

\* tokenize() has returned from a source with a nested comment and a name behind it.
C8_Witness ==
    /\ pc = "eof"
    /\ source = <<"/", "*", "/", "*", "*", "/", "*", "/">>
    /\ Len(tokens) = 1
    /\ lex.pos = 8

\* ---------------------------------------------------------------- C9
StartsNumber == source # <<>> /\ isdigit(source[1])
IsPrefixed(marks) == Len(source) >= 2 /\ source[1] = "0" /\ source[2] \in marks

\* Whether the numeric literal that is the first n characters of the source
\* is a float by its text: a decimal literal with a '.' or an exponent mark,
\* or a literal that ends with the suffix f/F (in a hexadecimal literal an f
\* is a suffix only behind a suffix u/U/l/L, else it is a digit).
IsFloatText(n) ==
    \/ /\ ~IsPrefixed({"b", "B", "x", "X"})
       /\ \E i \in 1..n : source[i] \in {".", "e", "E"}
    \/ /\ source[n] \in {"f", "F"}
       /\ IsPrefixed({"x", "X"}) => source[n - 1] \in {"u", "U", "l", "L"}

\* C9: the type and the text of a numeric literal.  When the source starts
\* with a digit and proximo_token() returns, the first token's text is the
\* source substring consumed, separators and suffixes included (after the
\* first call the cursor is at the end of that text), and the token is a
\* FLOAT_LITERAL if that text has a '.', an exponent or a trailing f/F suffix
\* and an INT_LITERAL otherwise (binary, hexadecimal, plain decimal, with any
\* u/U/l/L suffixes).  Which '.' the scanner consumes is not stated here.
\* 0b1010_0110, 0xDEAD_BEEF and 123UL are integers, 3.14f and 1.0e-10 floats.
C9_NumericKinds ==
    /\ (StartsNumber /\ pc \in {"lexing", "eof"}) =>
          /\ tokens[1].lexema = Str(SubSeq(source, 1, Len(tokens[1].lexema)))
          /\ tokens[1].coluna = 1
          /\ Len(tokens) = 1 => lex.pos = Len(tokens[1].lexema)
          /\ tokens[1].tipo = IF IsFloatText(Len(tokens[1].lexema)) THEN "FLOAT_LITERAL"
                              ELSE "INT_LITERAL"
    /\ (source \in {Sample0b, Sample0x, Sample123UL, Sample314f, SampleExp} /\ pc = "eof") =>
          /\ Len(tokens) = 2
          /\ tokens[1].lexema = Str(source)
          /\ tokens[1].tipo = IF source \in {Sample314f, SampleExp} THEN "FLOAT_LITERAL"
                              ELSE "INT_LITERAL"

\* tokenize() has returned from `1.0e-10`.
C9_Witness ==
    /\ pc = "eof"
    /\ source = SampleExp
    /\ tokens[1].tipo = "FLOAT_LITERAL"
    /\ tokens[1].lexema = "1.0e-10"

\* ---------------------------------------------------------------- C10
\* The first position behind the separators that follow a 0b/0x prefix.
RECURSIVE AfterSeparators(_)
AfterSeparators(i) ==
    IF i <= Len(source) /\ source[i] = "_" THEN AfterSeparators(i + 1) ELSE i

\* A 0b/0B (0x/0X) prefix followed by nothing, or only by separators, before
\* the first character that is not a digit of the base.
PrefixWithoutDigit ==
    \/ /\ IsPrefixed({"b", "B"})
       /\ AfterSeparators(3) <= Len(source) => source[AfterSeparators(3)] \notin {"0", "1"}
    \/ /\ IsPrefixed({"x", "X"})
       /\ AfterSeparators(3) <= Len(source) =>
             source[AfterSeparators(3)] \notin
                Digits \cup {"a", "b", "c", "d", "e", "f", "A", "B", "C", "D", "E", "F"}

\* C10: a binary or hexadecimal prefix followed by no digit is a fatal
\* lexical failure: the first proximo_token() raises and no token is produced.
C10_PrefixNeedsDigit ==
    (PrefixWithoutDigit /\ pc # "input") => pc = "error" /\ tokens = <<>>

\* tokenize() has failed on `0x_`.
C10_Witness ==
    /\ pc = "error"
    /\ source = <<"0", "x", "_">>
    /\ tokens = <<>>

\* ---------------------------------------------------------------- C11
\* The text of the three characters that begin at column c of a one-line source.
TextAt(c) == Str(SubSeq(source, c, Min(c + 2, Len(source))))
NegatedKeywords == {"!in", "!is"}
\* A one-line source without strings, character literals, quoted identifiers
\* and comments: every character is outside of them.
PlainText == SingleLine /\ \A i \in DOMAIN source : source[i] \notin {"\"", "'", "/", Crase}
Lexed == pc \in {"lexing", "eof", "error", "after_eof"}

\* C11: `!in` and `!is` are each one token.  In a plain one-line source, a
\* token that starts where the text is `!in` or `!is` has that text; the
\* text that begins with `!in` or `!is` gives that token first; and no OP_NOT
\* token is followed at the next column by a keyword token `in` or `is`.
C11_NegatedKeywords ==
    (PlainText /\ Lexed) =>
       /\ \A i \in DOMAIN tokens :
             TextAt(tokens[i].coluna) \in NegatedKeywords =>
                tokens[i].lexema = TextAt(tokens[i].coluna)
       /\ TextAt(1) \in NegatedKeywords =>
             tokens # <<>> /\ tokens[1].lexema = TextAt(1)
       /\ \A i \in 1..(Len(tokens) - 1) :
             ~ /\ tokens[i].tipo = "OP_NOT"
               /\ tokens[i + 1].tipo = "HARD_KEYWORDS"
               /\ tokens[i + 1].lexema \in {"in", "is"}
               /\ tokens[i + 1].coluna = tokens[i].coluna + 1

\* tokenize() has returned `a`, `!in` and EOF for the text `a!in`.
C11_Witness ==
    /\ pc = "eof"
    /\ source = <<"a", "!", "i", "n">>
    /\ Len(tokens) = 3
    /\ tokens[2].lexema = "!in"
    /\ tokens[2].tipo = "HARD_KEYWORD"

\* ---------------------------------------------------------------- C12
\* The parts of the string literal whose text goes on at index i of the
\* source after the literal run `run`, as <<kind, text>> pairs up to
\* STRING_END: a non-empty run is a STRING_TEXT (an escape is two characters
\* of the run), `$name` a STRING_INTERP_ID, `${...}` up to the first `}` the
\* triple START, EXPR, END.  StringFail if the literal is not well formed.
StringFail == << T("FAIL", "") >>
Then(parts, rest) == IF rest = StringFail THEN StringFail ELSE parts \o rest
TextPart(run) == IF run = "" THEN <<>> ELSE << T("STRING_TEXT", run) >>
ClosingBrace(i) ==
    IF \E j \in i..Len(source) : source[j] = "}"
    THEN CHOOSE j \in i..Len(source) :
            source[j] = "}" /\ \A k \in i..(j - 1) : source[k] # "}"
    ELSE 0
RECURSIVE NameEnd(_)
NameEnd(i) == IF i <= Len(source) /\ source[i] \in IdentChars THEN NameEnd(i + 1) ELSE i

RECURSIVE StringParts(_, _)
StringParts(i, run) ==
    IF i > Len(source) THEN StringFail
    ELSE IF source[i] = "\"" THEN TextPart(run) \o << T("STRING_END", "\"") >>
    ELSE IF source[i] = "$" /\ i < Len(source) /\ source[i + 1] = "{"
    THEN IF ClosingBrace(i + 2) = 0 THEN StringFail
         ELSE Then(TextPart(run) \o
                   << T("STRING_INTERP_START", "${"),
                      T("STRING_INTERP_EXPR",
                        Str(SubSeq(source, i + 2, ClosingBrace(i + 2) - 1))),
                      T("STRING_INTERP_END", "}") >>,
                   StringParts(ClosingBrace(i + 2) + 1, ""))
    ELSE IF source[i] = "$"
    THEN IF NameEnd(i + 1) = i + 1 THEN StringFail
         ELSE Then(TextPart(run) \o
                   << T("STRING_INTERP_ID", Str(SubSeq(source, i + 1, NameEnd(i + 1) - 1))) >>,
                   StringParts(NameEnd(i + 1), ""))
    ELSE IF source[i] = "\\"
    THEN IF i = Len(source) THEN StringFail
         ELSE StringParts(i + 2, run \o source[i] \o source[i + 1])
    ELSE StringParts(i + 1, run \o source[i])

StartsString == Len(source) >= 1 /\ source[1] = "\""
KindAndText(token) == T(token.tipo, token.lexema)

\* C12: a string literal lexes to STRING_START, its parts in source order,
\* STRING_END.  For a source that begins with a quote: if the literal is not
\* well formed the first proximo_token() fails and there is no token;
\* otherwise the tokens begin with STRING_START followed by the parts of the
\* literal.  `"sum=${a+b} end"` gives the seven tokens of the example and EOF.
C12_StringTokens ==
    /\ (StartsString /\ Lexed) =>
          LET parts == StringParts(2, "") IN
          IF parts = StringFail
          THEN pc = "error" /\ tokens = <<>>
          ELSE /\ Len(tokens) >= 1 + Len(parts)
               /\ KindAndText(tokens[1]) = T("STRING_START", "\"")
               /\ \A i \in DOMAIN parts : KindAndText(tokens[i + 1]) = parts[i]
    /\ (source = SampleSum /\ pc = "eof") =>
          [i \in DOMAIN tokens |-> KindAndText(tokens[i])] =
             << T("STRING_START", "\""), T("STRING_TEXT", "sum="),
                T("STRING_INTERP_START", "${"), T("STRING_INTERP_EXPR", "a+b"),
                T("STRING_INTERP_END", "}"), T("STRING_TEXT", " end"),
                T("STRING_END", "\""), T("EOF", "") >>

\* tokenize() has returned the tokens of `"sum=${a+b} end"`.
C12_Witness ==
    /\ pc = "eof"
    /\ source = SampleSum
    /\ Len(tokens) = 8
    /\ tokens[4].tipo = "STRING_INTERP_EXPR"
    /\ tokens[4].lexema = "a+b"

C14_EOFIdempotent ==
    [][pc' = "after_eof" =>
          /\ lex' = lex
          /\ erro' = erro
          /\ Len(tokens') = Len(tokens) + 1
          /\ tokens'[Len(tokens')] = tokens[Len(tokens)]
          /\ tokens[Len(tokens)].tipo = "EOF"]_vars

\* Two calls after the first EOF of `a!in`, whose EOF is not at column 1.
C14_Witness ==
    /\ pc = "after_eof"
    /\ Len(source) = 4
    /\ Len(tokens) >= 4
    /\ tokens[Len(tokens)].tipo = "EOF"
    /\ tokens[Len(tokens) - 1] = tokens[Len(tokens)]
    /\ tokens[Len(tokens) - 2] = tokens[Len(tokens)]
    /\ tokens[Len(tokens)].coluna > 1

\* ---------------------------------------------------------------- C15
\* C15: tokenize() terminates, and for a source without a fatal lexical
\* condition it returns the tokens in source order with exactly one EOF
\* token, the last element; the sub-tokens of a string literal are separate
\* elements of the same sequence, in order.  Termination is the loop of
\* tokenize() reaching its return or a raise; every iteration moves pos
\* forward and keeps the tokens collected so far.
NotAfter(a, b) ==
    \/ a.linha < b.linha
    \/ a.linha = b.linha /\ a.coluna <= b.coluna

EOFs == {i \in DOMAIN tokens : tokens[i].tipo = "EOF"}

C15_InOrder ==
    /\ pc \in {"lexing", "eof", "error"} =>
          \A i, j \in DOMAIN tokens : i < j => NotAfter(tokens[i], tokens[j])
    /\ pc \in {"lexing", "error"} => EOFs = {}
    /\ pc = "eof" => EOFs = {Len(tokens)} /\ Len(tokens) >= 1

C15_Iteration ==
    pc' \in {"lexing", "eof"} =>
        /\ lex'.pos > lex.pos \/ (pc' = "eof" /\ lex' = lex)
        /\ Len(tokens') > Len(tokens)
        /\ SubSeq(tokens', 1, Len(tokens)) = tokens

C15_Tokenize ==
    /\ []C15_InOrder
    /\ [][C15_Iteration]_vars
    /\ (pc = "lexing" ~> pc \in {"eof", "error"})

\* tokenize() has returned the eight tokens of `"sum=${a+b} end"`, the
\* sub-tokens of the string literal followed by the only EOF.
C15_Witness ==
    /\ pc = "eof"
    /\ source = SampleSum
    /\ Len(tokens) = 8
    /\ tokens[1].tipo = "STRING_START"
    /\ tokens[7].tipo = "STRING_END"
    /\ tokens[8].tipo = "EOF"

\* ---------------------------------------------------------------- C16
\* C16: under every interleaving of peek(n) and next() on the wrapper, the
\* tokens returned by the calls of next(), in order, are exactly the first
\* tokens of the underlying token stream: none is dropped, duplicated or
\* reordered, and the buffer holds the tokens that come next.
C16_NextIsPrefix ==
    /\ \A i \in DOMAIN out : out[i] = TsNext(i - 1)
    /\ Len(out) = Consumed(ps)
    /\ \A j \in DOMAIN ps.buffer : ps.buffer[j] = TsNext(Len(out) + j - 1)

\* next() has returned two tokens, the last call being a next() made after a
\* peek beyond the front of the buffer, and a token is still buffered.
C16_Witness ==
    /\ Len(out) = 2
    /\ Len(toks) = MaxStream
    /\ last.now.op = "next"
    /\ last.before.op = "peek"
    /\ last.before.n = MaxPeek
    /\ ps.buffer # <<>>

\* ---------------------------------------------------------------- C17
\* C17: peek(n) consumes nothing and can be repeated: two peek(n) in a row
\* return the same token, and a peek leaves the tokens handed out by next()
\* as they were.  A next() made right after peek(0) returns the token that
\* peek(0) returned and removes exactly that one token from the stream.
C17_LastCalls ==
    /\ (last.now.op = "peek" /\ last.before.op = "peek" /\ last.now.n = last.before.n)
          => last.now.tok = last.before.tok
    /\ (last.now.op = "next" /\ last.before.op = "peek" /\ last.before.n = 0)
          => /\ last.now.tok = last.before.tok
             /\ out # <<>>
             /\ out[Len(out)] = last.before.tok

C17_Call ==
    /\ (last'.now.op = "peek" /\ pc' = "wrapper")
          => out' = out /\ Consumed(ps') = Consumed(ps)
    /\ out' # out
          => /\ Len(out') = Len(out) + 1
             /\ Consumed(ps') = Consumed(ps) + 1
             /\ ps.buffer # <<>> => ps'.buffer = Tail(ps.buffer)

C17_PeekThenNext ==
    /\ []C17_LastCalls
    /\ [][C17_Call]_vars

\* peek(0) returned the second token of the stream and the next() after it
\* returned that token.
C17_Witness ==
    /\ last.now.op = "next"
    /\ last.before.op = "peek"
    /\ last.before.n = 0
    /\ last.now.tok.tipo # "EOF"
    /\ Len(out) = 2
    /\ out[2] = last.before.tok

\* ---------------------------------------------------------------- C18
\* C18: every fatal lexical failure aborts tokenization with an error that
\* identifies the condition together with the line and the column of the
\* fault: the exception raised carries a message, a line and a column (line 0
\* and column 0 stand for a message that names neither).
C18_ErrorNamesPosition ==
    pc = "error" =>
        /\ erro.mensagem # ""
        /\ erro.linha >= 1
        /\ erro.coluna >= 1

\* ---------------------------------------------------------------- C19
\* C19: the character sequence `as?` is lexed as one token with the text
\* `as?`: a token that starts where the source reads `as?` has that text, and
\* the keyword `as` is never followed at once by a separate `?` token.
C19_SafeCast ==
    Lexed =>
        /\ \A i \in DOMAIN tokens :
              TextAt(tokens[i].coluna) = "as?" /\ PlainText
                 => tokens[i].lexema = "as?"
        /\ \A i \in DOMAIN tokens :
              (i < Len(tokens) /\ tokens[i].lexema = "as" /\ tokens[i].tipo = "HARD_KEYWORDS")
                 => ~ /\ tokens[i + 1].tipo = "QUESTION"
                      /\ tokens[i + 1].linha = tokens[i].linha
                      /\ tokens[i + 1].coluna = tokens[i].coluna + 2

\* ---------------------------------------------------------------- C20
\* C20: in decimal scanning a '.' belongs to the numeric literal only when a
\* digit follows it: when the source starts with a decimal literal, every '.'
\* inside the first token's text is followed by a digit, and `0..10` gives
\* INT_LITERAL `0`, OP_RANGE `..`, INT_LITERAL `10` and EOF.
C20_DotNeedsDigit ==
    /\ (StartsNumber /\ ~IsPrefixed({"b", "B", "x", "X"}) /\ pc \in {"lexing", "eof"}) =>
          \A i \in 1..Len(tokens[1].lexema) :
              source[i] = "." => i < Len(source) /\ isdigit(source[i + 1])
    /\ (source = SampleRange /\ pc = "eof") =>
          /\ Len(tokens) = 4
          /\ tokens[1] = Token("INT_LITERAL", "0", 1, 1)
          /\ tokens[2] = Token("OP_RANGE", "..", 1, 2)
          /\ tokens[3] = Token("INT_LITERAL", "10", 1, 4)
          /\ tokens[4].tipo = "EOF"

\* ---------------------------------------------------------------- C21
\* The kinds of token that the tolerance of parse_property_decl names.
ColonTypoKinds ==
    {"INT_LITERAL", "FLOAT_LITERAL", "CHAR_LITERAL", "STRING_START", "IDENTIFIER", "LPAREN"}

\* A parser that has consumed the first n tokens of the stream.
AtToken(n) == [NewParser EXCEPT !.k = n]

\* The property `val name : ...` at the head of the stream has been parsed.
ColonPropertyParsed ==
    /\ pc \in {"decls", "done"}
    /\ Len(toks) >= 4
    /\ toks[1][1] \in PropertyKw
    /\ toks[3][1] = "COLON"
    /\ file.declarations # <<>>

\* The property has no type, its initializer is the expression that starts
\* at the token behind the ':', and the first diagnostic is at that token.
ReadAsInitializer ==
    /\ file.declarations[1].type = "property"
    /\ file.declarations[1].name = toks[2][2]
    /\ file.declarations[1].var_type = None
    /\ file.declarations[1].value = Call("parse_expression", AtToken(3), 0).node
    /\ file.declarations[1].value.type # "None"
    /\ ps.errors # <<>>
    /\ ps.errors[1].coluna = 4
    /\ ps.errors[1].token = toks[4][2]

FirstDeclMalformed ==
    /\ Len(toks) >= 3
    /\ \/ /\ toks[1][1] = "KW_FUN" /\ toks[2][1] = "IDENTIFIER" /\ toks[3][1] = "LPAREN"
          /\ Len(toks) >= 4
          /\ toks[4][1] \notin {"IDENTIFIER", "RPAREN"}
       \/ /\ toks[1][1] = "KW_CLASS" /\ toks[2][1] = "IDENTIFIER" /\ toks[3][1] = "LBRACE"
          /\ Len(toks) = 3
       \/ /\ toks[1][1] \in PropertyKw /\ toks[2][1] = "IDENTIFIER"
          /\ toks[3][1] \notin {"COLON", "OP_ASSIGN", "SEMICOLON"}

\* C22: a declaration rule that hits an unexpected token records one
\* diagnostic, recovers and returns an absent result, so that no node is
\* produced for the malformed construct: the first iteration of the loop of
\* parse() over such a declaration adds one diagnostic and no declaration.
C22_NoNodeForMalformed ==
    [][(pc = "decls" /\ Consumed(ps) = 0 /\ FirstDeclMalformed /\ pc' \in {"decls", "done"})
          => /\ file'.declarations = <<>>
             /\ Len(ps'.errors) = 1]_vars

\* ---------------------------------------------------------------- C23
\* class Foo { @ }  or  class Foo { @ ; } : a class whose body holds one token
\* that starts no member, and the position of its closing brace.
StrayMemberClose ==
    IF Len(toks) >= 5 /\ toks[5][1] = "RBRACE" THEN 5
    ELSE IF Len(toks) >= 6 /\ toks[5][1] = "SEMICOLON" /\ toks[6][1] = "RBRACE" THEN 6
    ELSE 0

ClassWithStrayMember ==
    /\ Len(toks) >= 5
    /\ SubSeq(toks, 1, 4) = << T("KW_CLASS", "class"), T("IDENTIFIER", "Foo"),
                               T("LBRACE", "{"), T("AT", "@") >>
    /\ StrayMemberClose # 0

PropertyTokensAt(i) ==
    /\ Len(toks) >= i + 1
    /\ toks[i][1] \in PropertyKw
    /\ toks[i + 1][1] = "IDENTIFIER"

\* C23: an unrecognized member token in a class body is reported with one
\* diagnostic and skipped without aborting the class body, the body holds
\* exactly the well-formed members between the class's braces, and what
\* follows the closing '}' is not a member: for `class Foo { @ }` and
\* `class Foo { @ ; }`, followed by anything, the class Foo has an empty
\* body, the '@' has one diagnostic, and a property that follows the '}' is
\* the second declaration of the file.
C23_StrayMemberSkipped ==
    (pc = "done" /\ ClassWithStrayMember) =>
        /\ file.declarations # <<>>
        /\ file.declarations[1] =
              [type |-> "class", name |-> "Foo", modifiers |-> <<>>, body |-> LIST(<<>>)]
        /\ Cardinality({i \in DOMAIN ps.errors : ps.errors[i].coluna = 4}) = 1
        /\ PropertyTokensAt(StrayMemberClose + 1) =>
              /\ Len(file.declarations) >= 2
              /\ file.declarations[2].type = "property"
              /\ file.declarations[2].name = toks[StrayMemberClose + 2][2]

\* ---------------------------------------------------------------- C24
\* The iteration of the loop of parse() that begins at a SEMICOLON consumes
\* that token and nothing else, and adds no node and no diagnostic.
SemicolonIteration ==
    (pc = "decls" /\ TsNext(Consumed(ps)).tipo = "SEMICOLON" /\ pc' \in {"decls", "done"}) =>
        /\ Consumed(ps') = Consumed(ps) + 1
        /\ file' = file
        /\ ps'.errors = ps.errors

\* For `; val x ;` parse() returns the property x alone, without a diagnostic.
SemicolonThenProperty ==
    (pc = "done" /\ toks = << T("SEMICOLON", ";"), T("KW_VAL", "val"), T("IDENTIFIER", "x"),
                              T("SEMICOLON", ";") >>) =>
        /\ ps.errors = <<>>
        /\ Len(file.declarations) = 1
        /\ file.declarations[1].type = "property"
        /\ file.declarations[1].name = "x"

\* C24: a stray SEMICOLON at top level is ignored: parse() consumes exactly
\* that one token, produces no node and no diagnostic, and the declaration
\* that follows is parsed normally and is among the file's declarations.
C24_StraySemicolon ==
    /\ []SemicolonThenProperty
    /\ [][SemicolonIteration]_vars

\* ---------------------------------------------------------------- C25
\* C25: a fatal lexical failure of the token source, raised on a request the
\* parser makes, is not suppressed, also when the request is made inside
\* panic-mode recovery: once the failing request has been made, parse() does
\* not return a file node as it does for an input that lexes cleanly.
C25_FailureNotSuppressed ==
    (SourceFails /\ ps.k >= Len(toks)) => pc # "done"

\* ---------------------------------------------------------------- C26
\* a !! . b
NotNullDotTokens ==
    << T("IDENTIFIER", "a"), T("OP_NOT_NULL", "!!"), T("DOT", "."), T("IDENTIFIER", "b") >>

\* The first step of the postfix chain the expression begins with: the
\* member node whose target is no member node, under the left operands of
\* the binary nodes.
RECURSIVE FirstStep(_)
FirstStep(node) ==
    IF node.type = "binary" THEN FirstStep(node.left)
    ELSE IF node.type = "member" /\ node.target.type = "member" THEN FirstStep(node.target)
    ELSE node

\* C26: a '!!' followed at once by '.' and a name is one member-access step:
\* when the expression begins with `a !! . b`, the first step of its chain
\* is the member node with target a, op `!!` and member b, and the '.' gets
\* no node and no diagnostic of its own; `a !! . b` alone is that node, with
\* all four tokens consumed.
C26_NotNullDot ==
    (pc = "expr" /\ Len(toks) >= 4 /\ SubSeq(toks, 1, 4) = NotNullDotTokens) =>
        /\ FirstStep(file) = [type |-> "member", target |-> [type |-> "identifier", name |-> "a"],
                              op |-> "!!", member |-> "b"]
        /\ \A i \in DOMAIN ps.errors : ps.errors[i].coluna > 4
        /\ Len(toks) = 4 =>
              /\ file = FirstStep(file)
              /\ ps.errors = <<>>
              /\ Consumed(ps) = 4

\* parse_expression() has returned from `a !! . b`.
C26_Witness ==
    /\ pc = "expr"
    /\ toks = NotNullDotTokens
    /\ file.type = "member"
    /\ file.op = "!!"
    /\ file.member = "b"

\* ---------------------------------------------------------------- C27
\* The texts of the error nodes of an expression, from left to right.
RECURSIVE ErrorTokens(_)
ErrorTokens(node) ==
    IF node.type = "error" THEN << node.token >>
    ELSE IF node.type = "binary" THEN ErrorTokens(node.left) \o ErrorTokens(node.right)
    ELSE IF node.type = "unary" THEN ErrorTokens(node.operand)
    ELSE IF node.type = "member" THEN ErrorTokens(node.target)
    ELSE << >>

IsPrimaryDiagnostic(e) == e.mensagem = "Expressão primária inválida"
PrimaryDiagnostics == SelectSeq(ps.errors, IsPrimaryDiagnostic)

\* Kinds of the streams that start no primary and no unary expression.
InvalidPrimaryKinds ==
    {"AT", "QUESTION", "DOT", "OP_SAFE_CALL", "OP_NOT_NULL", "OP_PLUS", "KW_AS", "KW_IN", "KW_IS"}

\* a op X, with X a token that starts no operand
InvalidRightOperand ==
    /\ Len(toks) = 3
    /\ toks[1][1] = "IDENTIFIER"
    /\ toks[2][1] \in {"OP_PLUS", "OP_MINUS", "KW_AS", "KW_IN", "KW_IS"}
    /\ toks[3][1] \in InvalidPrimaryKinds
    /\ ~(toks[2][1] = "KW_AS" /\ toks[3][1] = "QUESTION")

\* op X, with op a unary operator
InvalidUnaryOperand ==
    /\ Len(toks) = 2
    /\ toks[1][1] \in UnaryOps
    /\ toks[2][1] \in InvalidPrimaryKinds

\* C27: a token that starts no primary expression gets exactly one
\* diagnostic and an error node with the token's text, and the expression
\* around it goes on: the error nodes of the result are, in order, the
\* tokens of the "invalid primary" diagnostics, no token has two of them,
\* and in `a op X` and `op X` the error node is the operand of the binary
\* and of the unary node.
C27_ErrorNodeAsOperand ==
    pc = "expr" =>
        /\ Len(ErrorTokens(file)) = Len(PrimaryDiagnostics)
        /\ \A i \in DOMAIN PrimaryDiagnostics :
              /\ ErrorTokens(file)[i] = PrimaryDiagnostics[i].token
              /\ \A j \in DOMAIN PrimaryDiagnostics :
                    i < j => PrimaryDiagnostics[i].coluna < PrimaryDiagnostics[j].coluna
        /\ InvalidRightOperand =>
              /\ file = [type |-> "binary", op |-> toks[2][2],
                         left |-> [type |-> "identifier", name |-> toks[1][2]],
                         right |-> [type |-> "error", token |-> toks[3][2]]]
              /\ Len(ps.errors) = 1
              /\ ps.errors[1].coluna = 3
        /\ InvalidUnaryOperand =>
              /\ file = [type |-> "unary", op |-> toks[1][2],
                         operand |-> [type |-> "error", token |-> toks[2][2]]]
              /\ Len(ps.errors) = 1
              /\ ps.errors[1].coluna = 2

\* parse_expression() has returned from `a + @`.
C27_Witness ==
    /\ pc = "expr"
    /\ InvalidRightOperand
    /\ toks[2][1] = "OP_PLUS"
    /\ toks[3][1] = "AT"
    /\ file.right = [type |-> "error", token |-> "@"]

\* ---------------------------------------------------------------- C28
\* The operator that starts at token i of a chain: its text in the tree, the
\* kind that decides its level, and how many tokens it takes.
OperatorAt(i) ==
    IF toks[i][1] = "OP_NOT"
    THEN [text |-> "!" \o toks[i + 1][2], kind |-> toks[i + 1][1], len |-> 2]
    ELSE IF toks[i][1] = "KW_AS" /\ toks[i + 1][1] = "QUESTION"
    THEN [text |-> "as?", kind |-> "KW_AS", len |-> 2]
    ELSE [text |-> toks[i][2], kind |-> toks[i][1], len |-> 1]

\* The precedence level of an operator kind, 1 the lowest.
LevelOf(kind) ==
    IF kind = "OP_ELVIS" THEN 1
    ELSE IF kind = "OP_OR" THEN 2
    ELSE IF kind = "OP_AND" THEN 3
    ELSE IF kind \in {"OP_EQ", "OP_NEQ", "OP_EQ_STRICT", "OP_NEQ_STRICT"} THEN 4
    ELSE IF kind \in {"OP_GE", "OP_LE", "OP_GT", "OP_LT", "OP_RANGE", "OP_RANGE_UNTIL",
                      "KW_IN", "KW_IS", "KW_AS"} THEN 5
    ELSE IF kind \in {"OP_PLUS", "OP_MINUS", "OP_PLUS_ASSIGN", "OP_MINUS_ASSIGN"} THEN 6
    ELSE 7

\* The operators from token i on all belong to one level.
RECURSIVE SameLevelFrom(_, _)
SameLevelFrom(i, level) ==
    i > Len(toks) \/
        /\ LevelOf(OperatorAt(i).kind) = level
        /\ SameLevelFrom(i + OperatorAt(i).len + 1, level)

\* binary(opN, ... binary(op1, a, b) ..., z) for the chain from token i on.
RECURSIVE LeftNested(_, _)
LeftNested(i, node) ==
    IF i > Len(toks) THEN node
    ELSE LeftNested(i + OperatorAt(i).len + 1,
                    [type |-> "binary", op |-> OperatorAt(i).text, left |-> node,
                     right |-> [type |-> "identifier", name |-> toks[i + OperatorAt(i).len][2]]])

SameLevelChain == Len(toks) >= 5 /\ SameLevelFrom(2, LevelOf(OperatorAt(2).kind))

\* C28: every binary level is left-associative: a chain of operands joined
\* by operators of one level, `a op1 b op2 c`, parses without a diagnostic
\* to binary(op2, binary(op1, a, b), c).
C28_LeftAssociative ==
    (pc = "expr" /\ SameLevelChain) =>
        /\ file = LeftNested(2, [type |-> "identifier", name |-> toks[1][2]])
        /\ ps.errors = <<>>

\* parse_expression() has returned from `a - b - c`.
C28_Witness ==
    /\ pc = "expr"
    /\ toks = << T("IDENTIFIER", "a"), T("OP_MINUS", "-"), T("IDENTIFIER", "b"),
                 T("OP_MINUS", "-"), T("IDENTIFIER", "c") >>
    /\ file.left = [type |-> "binary", op |-> "-",
                    left |-> [type |-> "identifier", name |-> "a"],
                    right |-> [type |-> "identifier", name |-> "b"]]
    /\ file.right = [type |-> "identifier", name |-> "c"]

\* ---------------------------------------------------------------- C29
\* The binary node the expression begins with.
RECURSIVE LeftmostBinary(_)
LeftmostBinary(node) ==
    IF node.type = "binary" /\ node.left.type = "binary" THEN LeftmostBinary(node.left) ELSE node

\* The stream is a name, then the tokens of a relational keyword operator.
StartsWithOperator(seq) ==
    /\ Len(toks) >= 1 + Len(seq)
    /\ toks[1][1] = "IDENTIFIER"
    /\ SubSeq(toks, 2, 1 + Len(seq)) = seq
    /\ (seq = << T("KW_AS", "as") >> /\ Len(toks) >= 3) => toks[3][1] # "QUESTION"

\* The operator's tokens became one binary node with that op, whose right
\* operand begins after them.
FoldedInto(seq, op) ==
    (pc = "expr" /\ StartsWithOperator(seq)) =>
        /\ LeftmostBinary(file).type = "binary"
        /\ LeftmostBinary(file).op = op
        /\ LeftmostBinary(file).left = [type |-> "identifier", name |-> toks[1][2]]
        /\ (Len(toks) = 2 + Len(seq) /\ toks[Len(toks)][1] = "IDENTIFIER") =>
              /\ file = [type |-> "binary", op |-> op,
                         left |-> [type |-> "identifier", name |-> toks[1][2]],
                         right |-> [type |-> "identifier", name |-> toks[Len(toks)][2]]]
              /\ ps.errors = <<>>
              /\ Consumed(ps) = Len(toks)

\* C29: at the relational level `as ?`, `! in` and `! is` are each folded
\* into one binary node with op `as?`, `!in`, `!is`, both tokens consumed;
\* a bare `as`, `in` or `is` gives a binary node with op `as`, `in`, `is`.
C29_RelationalKeywords ==
    /\ FoldedInto(<< T("KW_AS", "as"), T("QUESTION", "?") >>, "as?")
    /\ FoldedInto(<< T("OP_NOT", "!"), T("KW_IN", "in") >>, "!in")
    /\ FoldedInto(<< T("OP_NOT", "!"), T("KW_IS", "is") >>, "!is")
    /\ FoldedInto(<< T("KW_AS", "as") >>, "as")
    /\ FoldedInto(<< T("KW_IN", "in") >>, "in")
    /\ FoldedInto(<< T("KW_IS", "is") >>, "is")

\* parse_expression() has returned from `a as ? b`.
C29_Witness ==
    /\ pc = "expr"
    /\ toks = << T("IDENTIFIER", "a"), T("KW_AS", "as"), T("QUESTION", "?"), T("IDENTIFIER", "b") >>
    /\ file.op = "as?"
    /\ file.right = [type |-> "identifier", name |-> "b"]

\* ---------------------------------------------------------------- C30
\* The text begins with a single quote.
StartsWithQuote == source # <<>> /\ source[1] = "'"

\* Exactly one content unit stands between the opening quote and a closing
\* one: an ordinary character, or a backslash and one more character.
OneContentUnit ==
    \/ Len(source) >= 3 /\ source[2] \notin {"'", "\\", "\n"} /\ source[3] = "'"
    \/ Len(source) >= 4 /\ source[2] = "\\" /\ source[4] = "'"

\* C30: a character literal is accepted only with exactly one content unit
\* between its quotes; an unterminated literal, the empty literal '', more
\* than one content unit, and a backslash at the end of the text are fatal
\* and give no token.
C30_OneContentUnit ==
    (StartsWithQuote /\ pc # "input") =>
        IF OneContentUnit
        THEN tokens # <<>> /\ tokens[1].tipo = "CHAR_LITERAL"
        ELSE pc = "error" /\ tokens = <<>>

\* ---------------------------------------------------------------- C31
\* A call of proximo_token() on the one lexer: not the input steps, not the
\* construction of a second instance.
LexerCall == lex' # lex \/ tokens' # tokens \/ erro' # erro

\* C31: over every sequence of calls of proximo_token() on a lexer, those
\* that raise and those made after EOF included, pos never decreases, and a
\* call that returns a token other than EOF leaves pos greater than it was.
C31_CursorMonotone ==
    [][(pc' # "again" /\ LexerCall) =>
          /\ lex'.pos >= lex.pos
          /\ lex'.linha >= lex.linha
          /\ (Len(tokens') > Len(tokens) /\ tokens'[Len(tokens')].tipo # "EOF") =>
                lex'.pos > lex.pos]_vars

\* Three calls have returned `a`, `!in` and EOF from `a!in`.
C31_Witness ==
    /\ pc = "eof"
    /\ source = <<"a", "!", "i", "n">>
    /\ Len(tokens) = 3
    /\ lex.pos = 4

\* ---------------------------------------------------------------- C32
\* C32: during a parse the parser asks only for peek(0) and peek(1): the
\* buffer of the wrapper never holds more than two tokens, neither between
\* the steps of parse() nor inside one (hw is the most it has held).
C32_TwoTokenLookahead ==
    /\ Len(ps.buffer) <= 2
    /\ ps.hw <= 2

\* parse() has returned from a program whose relational level looked at
\* peek(1): the buffer has held two tokens.
C32_Witness ==
    /\ pc = "done"
    /\ ps.hw = 2
    /\ ps.errors = <<>>
    /\ Len(toks) >= 3

\* ---------------------------------------------------------------- C33
\* val/var, a name, and then a token that is neither ':' nor '='.
NameThenNoColonNoAssign ==
    /\ Len(toks) >= 3
    /\ toks[1][1] \in {"KW_VAL", "KW_VAR"}
    /\ toks[2][1] = "IDENTIFIER"
    /\ toks[3][1] \notin {"COLON", "OP_ASSIGN"}

\* C33: an initializer is recorded only after '=' or after the tolerant ':'
\* recovery with its diagnostic: when the name of the first property is
\* followed by neither, as in `val x 99 ;`, a property node with an
\* initializer comes with a diagnostic.
C33_InitializerNeedsAssign ==
    (/\ pc = "done"
     /\ NameThenNoColonNoAssign
     /\ file.declarations # <<>>
     /\ file.declarations[1].type = "property"
     /\ file.declarations[1].value # NoneNode) => ps.errors # <<>>

\* ---------------------------------------------------------------- C34
\* class Foo { object { public fun f ( ) { }
ModifierBeforeObjectFun ==
    /\ Len(toks) >= 12
    /\ toks[4][1] = "KW_OBJECT"
    /\ toks[6][1] \in ModifierKinds
    /\ toks[7][1] = "KW_FUN"

\* C34: the modifiers consumed before a declaration are in the modifiers
\* list of its node: the function node of a `fun` member written after a
\* modifier in an object body carries that modifier.
C34_ModifiersRecorded ==
    (/\ pc = "done"
     /\ ModifierBeforeObjectFun
     /\ file.declarations[1].body.items[1].type = "object"
     /\ file.declarations[1].body.items[1].members # <<>>
     /\ file.declarations[1].body.items[1].members[1].type = "function") =>
        file.declarations[1].body.items[1].members[1].modifiers = << toks[6][2] >>

\* ---------------------------------------------------------------- C35
\* In a text of one line the character of column c is source[c].
OneLine == \A i \in DOMAIN source : source[i] # "\n"

\* Column c is where the `$` of an interpolation stands.
DollarAt(c) == c \in DOMAIN source /\ source[c] = "$"

\* Column c is where the name of a `$name` begins.
NameAt(c, name) ==
    /\ c - 1 \in DOMAIN source
    /\ source[c - 1] = "$"
    /\ c + Len(name) - 1 <= Len(source)
    /\ \A i \in 1..Len(name) : source[c + i - 1] = name[i]

\* C35: a token carries the line and column of its first character: in a
\* text of one line the column of a STRING_INTERP_START is that of its `$`,
\* and the column of a STRING_INTERP_ID that of its `$` or of the first
\* letter of its name, never a column after the token.
C35_SubTokenPositions ==
    (pc \in {"lexing", "eof"} /\ OneLine) =>
        \A i \in DOMAIN tokens :
            /\ tokens[i].tipo = "STRING_INTERP_START" =>
                  tokens[i].linha = 1 /\ DollarAt(tokens[i].coluna)
            /\ tokens[i].tipo = "STRING_INTERP_ID" =>
                  /\ tokens[i].linha = 1
                  /\ DollarAt(tokens[i].coluna) \/ NameAt(tokens[i].coluna, tokens[i].lexema)

\* ---------------------------------------------------------------- C36
\* The text begins with a character literal of n characters, quotes included.
LiteralOfLength(n) ==
    /\ Len(source) >= n
    /\ source[1] = "'"
    /\ source[n] = "'"
    /\ IF n = 3 THEN source[2] \notin {"'", "\\", "\n"} ELSE source[2] = "\\"

\* C36: the text of a CHAR_LITERAL token is the source text from the
\* opening quote to the closing quote, for a literal of one character as
\* for an escape.
C36_CharLiteralText ==
    \A n \in {3, 4} :
        (pc \in {"lexing", "eof"} /\ LiteralOfLength(n)) =>
            /\ tokens[1].tipo = "CHAR_LITERAL"
            /\ tokens[1].lexema = Slice(0, n)

\* ---------------------------------------------------------------- C37
\* The text is `!`, then a name that begins with `in` or `is` and goes on.
NegationOfLongerName ==
    /\ Len(source) >= 4
    /\ source[1] = "!"
    /\ source[2] = "i"
    /\ source[3] \in {"n", "s"}
    /\ source[4] \in IdentChars

\* C37: `!in` and `!is` are tokens only when `in` / `is` is a whole word:
\* from `!` followed by a longer name that begins with `in` or `is` the
\* lexer gives the operator `!` and then the whole name.
C37_WholeWordOnly ==
    (pc \in {"lexing", "eof"} /\ NegationOfLongerName) =>
        /\ tokens[1].tipo = "OP_NOT"
        /\ tokens[1].lexema = "!"
        /\ Len(tokens) >= 2 =>
              /\ tokens[2].tipo \in {"IDENTIFIER", "HARD_KEYWORDS", "SOFT_KEYWORDS", "MODIFIER_KEYWORDS"}
              /\ tokens[2].coluna = 2

\* ---------------------------------------------------------------- C38
\* class Foo { }   and   val x = 1;
ProgramClassFoo == WordClassFoo \o <<"{", " ">> \o <<"}">>
ProgramValX == WordValX \o WordAssign1 \o <<";">>

\* C38: the kinds the lexer gives to keywords are the kinds the parser
\* dispatches on: the tokens lexed from `class Foo { }` and from
\* `val x = 1;` parse to a class node and to a property node, with no
\* diagnostic.
C38_EndToEnd ==
    pc = "done" =>
        /\ source = ProgramClassFoo =>
              /\ ps.errors = <<>>
              /\ Len(file.declarations) = 1
              /\ file.declarations[1].type = "class"
        /\ source = ProgramValX =>
              /\ ps.errors = <<>>
              /\ Len(file.declarations) = 1
              /\ file.declarations[1].type = "property"

====
